---- MODULE Spec2Model ----
(***************************************************************************)
(* PH_Viz: a model of the octree spatial index, the model resource        *)
(* manager (loadFromFile with its ingestion workers, uploadToGPU), the     *)
(* per-frame decisions of Scene::draw, the frame of Renderer::render, the  *)
(* start-up and shutdown sequence of main, and Half::floatToHalf.          *)
(*                                                                         *)
(* Floats are modelled by integers.  Every float operation the modelled    *)
(* code performs on them (comparison, min, max, halving of a sum, adding,  *)
(* multiplying small integers) is exact on the values the bounds admit, so *)
(* the integer result is the float result.  No NaN is ever produced.       *)
(***************************************************************************)
EXTENDS Integers, Sequences, FiniteSets, TLC

VARIABLES
    points,        \* Octree: the std::vector<Point> handed to build (positions; element i+1 is index i)
    octree,        \* Octree: mRoot with its nodes, mNodeCount, mMaxDepth
    scene,         \* Scene: toggles, modelMatrix, occlusion culler state, the kind of model it holds
    camera,        \* FrameState: viewProj of the current frame
    lastDraw,      \* what the last Scene::draw call issued
    mMeshes,       \* Model::mMeshes
    mBounds,       \* Model: mMin, mMax, mScalarMin, mScalarMax
    spatialIndex,  \* Model::mSpatialIndex as loadFromFile leaves it (validity, number of points built over)
    loadResult,    \* the value the last loadFromFile returned, with the file it was given
    glObjects,     \* the GL object names (buffers, vertex arrays) currently alive
    ingest,        \* a loadFromFile call in progress: importer scene, main thread position, workers, mutex
    renderer,      \* Renderer: GL state and its cache, matrices UBO, occlusion query, counters, the frame's operations
    visible,       \* the result of the last Octree::getVisiblePoints call, with its arguments
    conv,          \* the last float handed to Half::floatToHalf, with the half it returned
    app,           \* main(): its position, the GL context, the GL objects and the handles that name them
    pointSize,     \* the GL point size, the three static sLastPointSize of Model, and the last point draw
    view           \* View: the camera with yaw and pitch, and the preset slots

octVars    == <<points, octree>>
sceneVars  == <<scene, camera, lastDraw>>
modelVars  == <<mMeshes, mBounds, spatialIndex, loadResult, glObjects>>
ingestVars == <<ingest>>
frameVars  == <<renderer>>
queryVars  == <<visible>>
halfVars   == <<conv>>
appVars    == <<app>>
extraVars  == <<pointSize, view>>
restVars   == <<renderer, visible, conv, app, pointSize, view>>
vars       == <<points, octree, scene, camera, lastDraw, mMeshes, mBounds, spatialIndex,
               loadResult, glObjects, ingest, renderer, visible, conv, app, pointSize, view>>

----------------------------------------------------------------------------
(* Bounds of the model *)

MaxPoints == 2          \* longest point array handed to Octree::build
MaxPointsPerNodeBound == 2   \* largest maxPointsPerNode tried
MaxDepthBound == 2      \* largest maxDepth tried

RECURSIVE Pow2(_)
Pow2(k) == IF k = 0 THEN 1 ELSE 2 * Pow2(k - 1)

\* Coordinates are stored in units of 1/Unit so that every node centre down to
\* level MaxDepthBound + 1 is an integer: halving is then exact, as it is for
\* these values in binary floating point.
Unit == Pow2(MaxDepthBound + 1)

\* The root box of the octree experiments is [0, 4]^3 (in whole units).
BoxMin == <<0, 0, 0>>
BoxMax == <<4 * Unit, 4 * Unit, 4 * Unit>>

\* Point positions tried: x in {0, 1, 4}, y and z in {0, 4}.  Points at x = 0 and
\* x = 1 share the lower half at level 0 and are separated one level down.
Positions == { <<x * Unit, y * Unit, z * Unit>> : x \in {0, 1, 4}, y \in {0, 4}, z \in {0, 4} }

PointArrays == UNION { [1..n -> Positions] : n \in 0..MaxPoints }

----------------------------------------------------------------------------
(* Small helpers *)

Min2(a, b) == IF b < a THEN b ELSE a      \* std::min(a, b)
Max2(a, b) == IF a < b THEN b ELSE a      \* std::max(a, b)

Range(s) == { s[i] : i \in DOMAIN s }

RECURSIVE SeqSum(_)
SeqSum(s) == IF s = <<>> THEN 0 ELSE Head(s) + SeqSum(Tail(s))

\* The sequence 0, 1, ..., n-1
Iota(n) == [i \in 1..n |-> i - 1]

----------------------------------------------------------------------------
(* Octree (SpatialIndex.hpp, SpatialIndex.cpp) *)

\* Node::center(): 0.5f * (min + max), per component
Center(nmin, nmax) == [a \in 1..3 |-> (nmin[a] + nmax[a]) \div 2]

\* Octree::getChildIndex: bit 0 for x >= center.x, bit 1 for y, bit 2 for z
GetChildIndex(point, center) ==
    (IF point[1] >= center[1] THEN 1 ELSE 0)
  + (IF point[2] >= center[2] THEN 2 ELSE 0)
  + (IF point[3] >= center[3] THEN 4 ELSE 0)

\* bit b (0, 1, 2) of the octant number i
Bit(i, b) == (i \div Pow2(b)) % 2

\* childMins[i], childMaxs[i] of buildRecursive
ChildMin(i, nmin, center) == [a \in 1..3 |-> IF Bit(i, a - 1) = 1 THEN center[a] ELSE nmin[a]]
ChildMax(i, nmax, center) == [a \in 1..3 |-> IF Bit(i, a - 1) = 1 THEN nmax[a] ELSE center[a]]

\* faulty variant: a point lying on a splitting plane is pushed to no child
ChildIndicesDropsBoundary(i, pts, indices, center) ==
    SelectSeq(indices, LAMBDA idx :
        /\ GetChildIndex(pts[idx + 1], center) = i
        /\ \A a \in 1..3 : pts[idx + 1][a] # center[a])

\* The points of `indices` that buildRecursive pushes to childIndices[i], in order
ChildIndices(i, pts, indices, center) ==
    SelectSeq(indices, LAMBDA idx :
        LET childIdx == GetChildIndex(pts[idx + 1], center)
        IN  childIdx >= 0 /\ childIdx < 8 /\ childIdx = i)

\* A node of the tree.  A node is named by its path from the root (the octant
\* numbers taken); `children` lists the octants whose unique_ptr is not null.
MakeNode(nmin, nmax, level, isLeaf, pointIndices, children) ==
    [min |-> nmin, max |-> nmax, level |-> level, isLeaf |-> isLeaf,
     pointIndices |-> pointIndices, children |-> children]

\* faulty variant: a node at level maxDepth is still subdivided
StopsOneLevelLate(n, level, maxPointsPerNode, maxDepth) ==
    n <= maxPointsPerNode \/ level > maxDepth

\* buildRecursive: indices.size() <= maxPointsPerNode || node->level >= maxDepth
StopsSubdividing(n, level, maxPointsPerNode, maxDepth) ==
    n <= maxPointsPerNode \/ level >= maxDepth

\* Octree::buildRecursive on the node at `path`: the nodes of its subtree, as a
\* function from paths to nodes.
RECURSIVE BuildRecursive(_, _, _, _, _, _, _, _)
BuildRecursive(path, nmin, nmax, level, pts, indices, maxPointsPerNode, maxDepth) ==
    IF StopsSubdividing(Len(indices), level, maxPointsPerNode, maxDepth)
    THEN (path :> MakeNode(nmin, nmax, level, TRUE, indices, {}))
    ELSE LET center == Center(nmin, nmax)
             childIdx == [i \in 0..7 |-> ChildIndices(i, pts, indices, center)]
             present == { i \in 0..7 : childIdx[i] # <<>> }
             sub == [i \in present |->
                        BuildRecursive(Append(path, i), ChildMin(i, nmin, center),
                                       ChildMax(i, nmax, center), level + 1, pts,
                                       childIdx[i], maxPointsPerNode, maxDepth)]
             this == IF present = {}
                     THEN MakeNode(nmin, nmax, level, TRUE, indices, {})
                     ELSE MakeNode(nmin, nmax, level, FALSE, <<>>, present)
             all == UNION { { <<p, sub[i][p]>> : p \in DOMAIN sub[i] } : i \in present }
         IN  [p \in {path} \cup { pr[1] : pr \in all } |->
                 IF p = path THEN this ELSE (CHOOSE pr \in all : pr[1] = p)[2]]

\* mMaxDepth after a build: buildRecursive raises it in the leaf branch only
MaxLeafLevel(nodes) ==
    LET ls == { nodes[p].level : p \in { q \in DOMAIN nodes : nodes[q].children = {} /\ nodes[q].isLeaf } }
    IN  IF ls = {} THEN 0 ELSE CHOOSE l \in ls : \A k \in ls : k <= l

\* A default-constructed Octree: mRoot is null
NullOctree == [valid |-> FALSE, nodes |-> << >>, mNodeCount |-> 0, mMaxDepth |-> 0,
               maxPointsPerNode |-> 0, maxDepth |-> 0]

\* Octree::build
OctreeBuild(pts, nmin, nmax, maxPointsPerNode, maxDepth) ==
    LET nodes == BuildRecursive(<<>>, nmin, nmax, 0, pts, Iota(Len(pts)), maxPointsPerNode, maxDepth)
    IN  [valid |-> TRUE, nodes |-> nodes, mNodeCount |-> Cardinality(DOMAIN nodes),
         mMaxDepth |-> MaxLeafLevel(nodes),
         maxPointsPerNode |-> maxPointsPerNode, maxDepth |-> maxDepth]

----------------------------------------------------------------------------
(* Defaults of the parts a specification leaves alone *)

IdleScene == [kind |-> "none"]
IdleCamera == [kind |-> "none"]
IdleDraw == [kind |-> "none"]
IdleIngest == [phase |-> "idle"]

OctreeIdle == points = <<>> /\ octree = NullOctree
SceneIdle == scene = IdleScene /\ camera = IdleCamera /\ lastDraw = IdleDraw
ModelIdle == /\ mMeshes = <<>>
             /\ mBounds = [mMin |-> <<0, 0, 0>>, mMax |-> <<0, 0, 0>>, mScalarMin |-> 0, mScalarMax |-> 1]
             /\ spatialIndex = [valid |-> FALSE, builtOver |-> 0]
             /\ loadResult = [called |-> FALSE, ok |-> FALSE, file |-> [scene |-> FALSE, meshes |-> <<>>]]
             /\ glObjects = {}
IngestIdle == ingest = IdleIngest
IdleRenderer == [phase |-> "none"]
IdleVisible == [called |-> FALSE]
IdleConv == [called |-> FALSE]
IdleApp == [pc |-> "none"]
IdlePointSize == [drawn |-> FALSE]
IdleView == [kind |-> "none"]
ExtraIdle == pointSize = IdlePointSize /\ view = IdleView
RestIdle ==
    /\ renderer = IdleRenderer /\ visible = IdleVisible /\ conv = IdleConv /\ app = IdleApp
    /\ ExtraIdle

----------------------------------------------------------------------------
(* Specification of the octree: a caller holds a point array and builds. *)

InitOctree ==
    /\ points \in PointArrays
    /\ octree = NullOctree
    /\ SceneIdle /\ ModelIdle /\ IngestIdle /\ RestIdle

\* octree.build(points, BoxMin, BoxMax, maxPointsPerNode, maxDepth).  The tree is
\* built once and only queried afterwards.
Build(maxPointsPerNode, maxDepth) ==
    /\ ~octree.valid
    /\ ~visible.called
    /\ octree' = OctreeBuild(points, BoxMin, BoxMax, maxPointsPerNode, maxDepth)
    /\ UNCHANGED <<points, sceneVars, modelVars, ingestVars, restVars>>

\* NextOctree and SpecOctree follow the query operators below.

----------------------------------------------------------------------------
(* C1 *)

Leaves == { p \in DOMAIN octree.nodes : octree.nodes[p].isLeaf }
Internals == { p \in DOMAIN octree.nodes : ~octree.nodes[p].isLeaf }

\* how many times index i occurs in the pointIndices lists of the leaves
LeafOccurrences(i) ==
    Cardinality({ <<p, k>> \in UNION { {p} \X DOMAIN octree.nodes[p].pointIndices : p \in Leaves } :
                    octree.nodes[p].pointIndices[k] = i })

\* C1: after Octree::build, every input index 0..n-1 appears in the pointIndices
\* list of exactly one leaf (once), and no internal node holds a point index.
C1_EveryPointInExactlyOneLeaf ==
    octree.valid =>
        /\ \A i \in 0..(Len(points) - 1) : LeafOccurrences(i) = 1
        /\ \A p \in Leaves : \A k \in DOMAIN octree.nodes[p].pointIndices :
               octree.nodes[p].pointIndices[k] \in 0..(Len(points) - 1)
        /\ \A p \in Internals : octree.nodes[p].pointIndices = <<>>

\* a built tree that was subdivided twice, with points in different leaves
C1_Witness ==
    /\ octree.valid
    /\ Len(points) = MaxPoints
    /\ \E p \in Leaves : Len(p) >= 2
    /\ Cardinality({ p \in Leaves : octree.nodes[p].pointIndices # <<>> }) >= 2

\* C18: after Octree::build, every leaf either holds at most maxPointsPerNode
\* points or sits at level exactly maxDepth, and no node has a level greater than
\* maxDepth, coincident points included.
C18_LeavesWithinLimits ==
    octree.valid =>
        /\ \A p \in Leaves :
               \/ Len(octree.nodes[p].pointIndices) <= octree.maxPointsPerNode
               \/ octree.nodes[p].level = octree.maxDepth
        /\ \A p \in DOMAIN octree.nodes : octree.nodes[p].level <= octree.maxDepth

\* coincident points that no subdivision separates: a leaf at level maxDepth,
\* below the root, holding more than maxPointsPerNode points
C18_Witness ==
    /\ octree.valid
    /\ Len(points) = 2 /\ points[1] = points[2]
    /\ octree.maxDepth >= 1
    /\ \E p \in Leaves :
           /\ Len(octree.nodes[p].pointIndices) > octree.maxPointsPerNode
           /\ octree.nodes[p].level = octree.maxDepth

----------------------------------------------------------------------------
(* Matrices and the frustum (glm, RenderUtils.hpp) *)

\* A glm::mat4 is written by rows here; glm indexes m[column][row].
El(m, c, r) == m[r + 1][c + 1]

Identity4 == << <<1, 0, 0, 0>>, <<0, 1, 0, 0>>, <<0, 0, 1, 0>>, <<0, 0, 0, 1>> >>

\* glm::translate(mat4(1), t)
Translate(t) == << <<1, 0, 0, t[1]>>, <<0, 1, 0, t[2]>>, <<0, 0, 1, t[3]>>, <<0, 0, 0, 1>> >>

\* glm::scale(mat4(1), vec3(s))
Scale(s) == << <<s, 0, 0, 0>>, <<0, s, 0, 0>>, <<0, 0, s, 0>>, <<0, 0, 0, 1>> >>

\* a * b
MatMul(a, b) ==
    [r \in 1..4 |-> [c \in 1..4 |-> a[r][1] * b[1][c] + a[r][2] * b[2][c]
                                   + a[r][3] * b[3][c] + a[r][4] * b[4][c]]]

\* glm::vec3(m * glm::vec4(p, 1.0f))
TransformPoint(m, p) ==
    [a \in 1..3 |-> m[a][1] * p[1] + m[a][2] * p[2] + m[a][3] * p[3] + m[a][4]]

\* Frustum::extractFromMatrix: left, right, bottom, top, near, far.  The division
\* of each plane by the length of its normal is left out: it multiplies the plane
\* by a positive number, and only the sign of a plane distance is ever used.
ExtractFromMatrix(viewProj) ==
    LET plane(sign, r) == [k \in 1..4 |-> El(viewProj, k - 1, 3) + sign * El(viewProj, k - 1, r)]
    IN  << plane(1, 0), plane(-1, 0), plane(1, 1), plane(-1, 1), plane(1, 2), plane(-1, 2) >>

\* dot(normal, p) + plane.w
PlaneDistance(plane, p) == plane[1] * p[1] + plane[2] * p[2] + plane[3] * p[3] + plane[4]

\* Frustum::intersectsAABB
IntersectsAABB(planes, bmin, bmax) ==
    \A i \in 1..6 :
        LET positiveVertex == [a \in 1..3 |-> IF planes[i][a] > 0 THEN bmax[a] ELSE bmin[a]]
        IN  ~(PlaneDistance(planes[i], positiveVertex) < 0)

\* the 8 corners of a box, as intersectsTransformedAABB lists them
Corners(bmin, bmax) ==
    { <<x, y, z>> : x \in {bmin[1], bmax[1]}, y \in {bmin[2], bmax[2]}, z \in {bmin[3], bmax[3]} }

SetMin(S) == CHOOSE x \in S : \A y \in S : x <= y
SetMax(S) == CHOOSE x \in S : \A y \in S : y <= x

\* faulty variant: the model matrix is ignored
IntersectsTransformedAABBUntransformed(planes, bmin, bmax, modelMatrix) ==
    IntersectsAABB(planes, bmin, bmax)

\* Frustum::intersectsTransformedAABB
IntersectsTransformedAABB(planes, bmin, bmax, modelMatrix) ==
    LET corners == { TransformPoint(modelMatrix, c) : c \in Corners(bmin, bmax) }
        tMin == [a \in 1..3 |-> SetMin({ c[a] : c \in corners })]
        tMax == [a \in 1..3 |-> SetMax({ c[a] : c \in corners })]
    IN  IntersectsAABB(planes, tMin, tMax)

\* std::numeric_limits<float>::max(): a number above every coordinate and
\* distance of the model stands for it.
FltMax == 1000000000

\* faulty variant: the distance to the centre of the box
DistanceToBoxCentreSq(point, bmin, bmax) ==
    LET d == [a \in 1..3 |-> point[a] - Center(bmin, bmax)[a]]
    IN  d[1] * d[1] + d[2] * d[2] + d[3] * d[3]

\* The square of Octree::distanceToAABB (glm::length of point - closest)
DistanceToAABBSq(point, bmin, bmax) ==
    LET closest == [a \in 1..3 |-> Max2(bmin[a], Min2(point[a], bmax[a]))]
        d == [a \in 1..3 |-> point[a] - closest[a]]
    IN  d[1] * d[1] + d[2] * d[2] + d[3] * d[3]

\* dist > maxDistance, on the squares; no finite distance exceeds FltMax
DistanceExceeds(distSq, maxDistance) ==
    maxDistance # FltMax /\ distSq > maxDistance * maxDistance

\* faulty variant: the loop over the children stops one octant early
VisitsChildButLast(node, i) == i \in node.children /\ i < 7

\* for (int i = 0; i < 8; ++i) if (node->children[i]) ...
VisitsChild(node, i) == i \in node.children

\* Octree::getVisiblePointsRecursive on the node at `path`: the indices appended
RECURSIVE GetVisiblePointsRecursive(_, _, _, _, _)
GetVisiblePointsRecursive(nodes, path, viewProj, camPos, maxDistance) ==
    LET node == nodes[path]
        RECURSIVE FromChildren(_)
        FromChildren(i) ==
            IF i > 7 THEN <<>>
            ELSE (IF VisitsChild(node, i)
                  THEN GetVisiblePointsRecursive(nodes, Append(path, i), viewProj, camPos, maxDistance)
                  ELSE <<>>) \o FromChildren(i + 1)
    IN  IF DistanceExceeds(DistanceToAABBSq(camPos, node.min, node.max), maxDistance) THEN <<>>
        ELSE IF ~IntersectsAABB(ExtractFromMatrix(viewProj), node.min, node.max) THEN <<>>
        ELSE IF node.isLeaf THEN node.pointIndices
        ELSE FromChildren(0)

\* faulty variant: the query goes into the tree without looking at mRoot; what
\* a null root yields then is anything
NullTreeResultUnchecked == <<0>>

\* if (!mRoot) return {};
NullTreeResult == <<>>

\* Octree::getVisiblePoints
GetVisiblePoints(tree, viewProj, camPos, maxDistance) ==
    IF ~tree.valid THEN NullTreeResult
    ELSE GetVisiblePointsRecursive(tree.nodes, <<>>, viewProj, camPos, maxDistance)

\* the default farThreshold of getLODPoints, in whole units
DefaultFarThreshold == 100

\* Node::maxDim()
MaxDim(node) == Max2(node.max[1] - node.min[1],
                     Max2(node.max[2] - node.min[2], node.max[3] - node.min[3]))

\* useNode of getLODPointsRecursive: (nodeDist > farThreshold) ||
\* (nodeSize / nodeDist < 0.01f), on the squares.  With nodeDist = 0 the quotient
\* is +inf or NaN and the comparison is false, as the product form is.
UseNode(node, camPos, farThreshold) ==
    LET c == Center(node.min, node.max)
        d == [a \in 1..3 |-> camPos[a] - c[a]]
        nodeDistSq == d[1] * d[1] + d[2] * d[2] + d[3] * d[3]
        nodeSize == MaxDim(node)
    IN  \/ nodeDistSq > farThreshold * farThreshold
        \/ nodeSize * nodeSize * 10000 < nodeDistSq

\* Octree::getLODPointsRecursive on the node at `path`: the indices appended
RECURSIVE GetLODPointsRecursive(_, _, _, _)
GetLODPointsRecursive(nodes, path, camPos, farThreshold) ==
    LET node == nodes[path]
        RECURSIVE FromLeafChildren(_)
        FromLeafChildren(i) ==
            IF i > 7 THEN <<>>
            ELSE (IF i \in node.children /\ nodes[Append(path, i)].isLeaf
                  THEN nodes[Append(path, i)].pointIndices
                  ELSE <<>>) \o FromLeafChildren(i + 1)
        RECURSIVE FromChildren(_)
        FromChildren(i) ==
            IF i > 7 THEN <<>>
            ELSE (IF i \in node.children
                  THEN GetLODPointsRecursive(nodes, Append(path, i), camPos, farThreshold)
                  ELSE <<>>) \o FromChildren(i + 1)
    IN  IF UseNode(node, camPos, farThreshold) \/ node.isLeaf
        THEN (IF node.isLeaf THEN node.pointIndices ELSE FromLeafChildren(0))
        ELSE FromChildren(0)

\* Octree::getLODPoints; `distance` and nearThreshold are passed down and never read
GetLODPoints(tree, camPos, farThreshold) ==
    IF ~tree.valid THEN NullTreeResult
    ELSE GetLODPointsRecursive(tree.nodes, <<>>, camPos, farThreshold)

----------------------------------------------------------------------------
(* Specification of the octree, continued: queries on the built tree *)

\* Frustums tried on the built tree, as view-projection matrices with the eye
\* position: the cube that is the root box itself, seen from its centre; the cube
\* of half-width one around the corner BoxMin, seen from outside the box; a cube
\* far away from the box.  their clip w is the half-width (see QueryViewProj).
QueryViewProj(c, half) ==
    << <<1, 0, 0, -c[1]>>, <<0, 1, 0, -c[2]>>, <<0, 0, 1, -c[3]>>, <<0, 0, 0, half>> >>

QueryCameras ==
    { [viewProj |-> QueryViewProj(<<2 * Unit, 2 * Unit, 2 * Unit>>, 2 * Unit),
       camPos |-> <<2 * Unit, 2 * Unit, 2 * Unit>>],
      [viewProj |-> QueryViewProj(BoxMin, Unit), camPos |-> <<-Unit, 0, 0>>],
      [viewProj |-> QueryViewProj(<<40 * Unit, 0, 0>>, Unit), camPos |-> <<40 * Unit, 0, 0>>] }

\* maximum distances tried: the default (unlimited) and one unit, which is the
\* distance from the second camera to the corner BoxMin
QueryDistances == {FltMax, Unit}

\* octree.getVisiblePoints(viewProj, camPos, maxDistance), on a built tree or on
\* one that was never built.  The call is const and leaves the tree as it is, so
\* one call per tree shows all a call can do.
Query(cam, maxDistance) ==
    /\ ~visible.called
    /\ visible' = [called |-> TRUE, kind |-> "visible",
                   viewProj |-> cam.viewProj, camPos |-> cam.camPos,
                   maxDistance |-> maxDistance,
                   result |-> GetVisiblePoints(octree, cam.viewProj, cam.camPos, maxDistance)]
    /\ UNCHANGED <<octVars, sceneVars, modelVars, ingestVars, frameVars, halfVars, appVars, extraVars>>

\* eye positions tried for getLODPoints: the centre of the root box, and a
\* position farther from it than the far threshold
LODPositions == { <<2 * Unit, 2 * Unit, 2 * Unit>>, <<(DefaultFarThreshold + 4) * Unit, 2 * Unit, 2 * Unit>> }

\* octree.getLODPoints(camPos, distance) with the default thresholds
QueryLOD(camPos) ==
    /\ ~visible.called
    /\ visible' = [called |-> TRUE, kind |-> "lod", camPos |-> camPos,
                   result |-> GetLODPoints(octree, camPos, DefaultFarThreshold * Unit)]
    /\ UNCHANGED <<octVars, sceneVars, modelVars, ingestVars, frameVars, halfVars, appVars, extraVars>>

NextOctree ==
    \/ \E mppn \in 0..MaxPointsPerNodeBound, md \in 0..MaxDepthBound : Build(mppn, md)
    \/ \E cam \in QueryCameras, maxDistance \in QueryDistances : Query(cam, maxDistance)
    \/ \E camPos \in LODPositions : QueryLOD(camPos)

SpecOctree == InitOctree /\ [][NextOctree]_vars

\* every corner of the root box lies on the inner side of every frustum plane
FrustumContainsRootBox ==
    \A c \in Corners(octree.nodes[<<>>].min, octree.nodes[<<>>].max) :
        \A i \in 1..6 : PlaneDistance(ExtractFromMatrix(visible.viewProj)[i], c) >= 0

\* how many times index i occurs in the result of the query
Occurrences(i) == Cardinality({ k \in DOMAIN visible.result : visible.result[k] = i })

\* C19: for any built octree, getVisiblePoints called with a frustum that contains
\* the whole root bounding box and an unlimited maximum distance returns every
\* input index exactly once; for any camera, frustum and maximum distance the
\* result never contains an index twice.
C19_VisiblePointsOnceEach ==
    (octree.valid /\ visible.called /\ visible.kind = "visible") =>
        /\ \A i \in 0..(Len(points) - 1) : Occurrences(i) <= 1
        /\ (FrustumContainsRootBox /\ visible.maxDistance = FltMax) =>
               /\ \A i \in 0..(Len(points) - 1) : Occurrences(i) = 1
               /\ Len(visible.result) = Len(points)

\* a query with the all-containing frustum on a subdivided tree whose points lie
\* in different leaves, one of them in the last octant
C19_Witness ==
    /\ octree.valid /\ visible.called /\ visible.kind = "visible"
    /\ FrustumContainsRootBox /\ visible.maxDistance = FltMax
    /\ Len(points) = MaxPoints
    /\ Len(visible.result) = MaxPoints
    /\ 7 \in octree.nodes[<<>>].children
    /\ Cardinality(octree.nodes[<<>>].children) >= 2

\* point pt lies in the box bmin..bmax (Octree::pointInAABB)
PointInAABB(pt, bmin, bmax) == \A a \in 1..3 : pt[a] >= bmin[a] /\ pt[a] <= bmax[a]

\* the leaf holding index i, and the nodes on the way to it from the root
LeafOf(i) == CHOOSE p \in Leaves : i \in Range(octree.nodes[p].pointIndices)
UpTo(p) == { SubSeq(p, 1, n) : n \in 0..Len(p) }

\* pt is on the inner side of the six planes of the query's frustum
InQueryFrustum(pt) ==
    \A i \in 1..6 : PlaneDistance(ExtractFromMatrix(visible.viewProj)[i], pt) >= 0

\* pt is within maxDistance of the query's eye position
WithinQueryDistance(pt) ==
    LET d == [a \in 1..3 |-> pt[a] - visible.camPos[a]]
    IN  \/ visible.maxDistance = FltMax
        \/ d[1] * d[1] + d[2] * d[2] + d[3] * d[3] <= visible.maxDistance * visible.maxDistance

\* C28: in the octree's own coordinate space, if all input points lie inside the
\* root box given to build, then every point lies inside the AABB of its leaf and
\* of every ancestor, and therefore every point that is inside the query frustum
\* and within maxDistance of the camera is returned by getVisiblePoints.
C28_PruningDropsNoVisiblePoint ==
    (/\ octree.valid
     /\ \A i \in DOMAIN points : PointInAABB(points[i], BoxMin, BoxMax)) =>
        /\ \A i \in DOMAIN points : \A q \in UpTo(LeafOf(i - 1)) :
               PointInAABB(points[i], octree.nodes[q].min, octree.nodes[q].max)
        /\ (visible.called /\ visible.kind = "visible") =>
               \A i \in DOMAIN points :
                   (InQueryFrustum(points[i]) /\ WithinQueryDistance(points[i]))
                       => (i - 1) \in Range(visible.result)

\* a query with a finite maximum distance on a subdivided tree: it returns the
\* point at that very distance and prunes the node of the other point
C28_Witness ==
    /\ octree.valid /\ ~octree.nodes[<<>>].isLeaf
    /\ visible.called /\ visible.kind = "visible" /\ visible.maxDistance = Unit
    /\ Len(points) = MaxPoints
    /\ Len(visible.result) = 1
    /\ \E i \in DOMAIN points : InQueryFrustum(points[i]) /\ ~WithinQueryDistance(points[i])

\* C23: octree edge cases never fail: building from an empty point set yields a
\* root that exists, is a leaf and holds no points; building from a single point
\* yields a single leaf holding it; getVisiblePoints and getLODPoints on an
\* octree that was never built return an empty result.
C23_OctreeEdgeCases ==
    /\ (octree.valid /\ Len(points) = 0) =>
           /\ DOMAIN octree.nodes = {<<>>}
           /\ octree.nodes[<<>>].isLeaf /\ octree.nodes[<<>>].pointIndices = <<>>
    /\ (octree.valid /\ Len(points) = 1) =>
           /\ Cardinality(Leaves) = 1
           /\ \A p \in Leaves : octree.nodes[p].pointIndices = <<0>>
           /\ (octree.maxPointsPerNode >= 1 \/ octree.maxDepth = 0) => DOMAIN octree.nodes = {<<>>}
    /\ (~octree.valid /\ visible.called) => visible.result = <<>>

\* a getLODPoints call on a tree that was never built, over a non-empty array
C23_Witness ==
    /\ ~octree.valid /\ points # <<>>
    /\ visible.called /\ visible.kind = "lod"

----------------------------------------------------------------------------
(* Model (Model.h, Model.cpp): what the importer hands over *)

\* Graphics::Config (Utils.hpp)
MinVerticesForThreading == 10000
MinMeshesForThreading == 2
PointCloudMinPointsForOctree == 100000
OctreeMaxDepth == 12
OctreePointsPerNode == 1000
VertexOptimizationMinVerts == 10000

\* the first value that does not fit a uint16_t
IndexLimit16 == 65536

\* An aiMesh.  mNumVertices is the number of vertices; mVertices lists positions
\* covering all the distinct positions among them (the bounds of a mesh depend on
\* nothing else); mFaces is the list of faces, each a list of vertex indices.
AiMesh(numVertices, vertices, faces) ==
    [mNumVertices |-> numVertices, mVertices |-> vertices, mFaces |-> faces]

\* An importer result: ReadFile returned a scene or null; the scene's meshes
ImportOk(meshes) == [scene |-> TRUE, meshes |-> meshes]
ImportNull == [scene |-> FALSE, meshes |-> <<>>]

\* A Mesh (Model.h).  cpuVertices is vertices.size(); the vertex records
\* themselves are not kept.  vao, vbo, ebo are GL names, 0 for none.
NewMesh ==
    [cpuVertices |-> 0, indices |-> <<>>, vao |-> 0, vbo |-> 0, ebo |-> 0,
     indexCount |-> 0, vertexCount |-> 0, isPointCloud |-> FALSE,
     uses16BitIndices |-> FALSE, usesOptimizedVertices |-> FALSE,
     vboLayout |-> "none", eboData |-> <<>>, eboWidth |-> 0]

\* the per-mesh accumulators of processMesh before the vertex loop
EmptyLocal == [min |-> <<FltMax, FltMax, FltMax>>, max |-> <<-FltMax, -FltMax, -FltMax>>,
               scalarMin |-> FltMax, scalarMax |-> -FltMax]

\* makeVertex never sets Vertex::scalar: it keeps its default
VertexScalar == 0

\* one round of the vertex loop of processMesh, for a vertex at position pos
AccumulateVertex(acc, pos) ==
    [min |-> [a \in 1..3 |-> Min2(acc.min[a], pos[a])],
     max |-> [a \in 1..3 |-> Max2(acc.max[a], pos[a])],
     scalarMin |-> Min2(acc.scalarMin, VertexScalar),
     scalarMax |-> Max2(acc.scalarMax, VertexScalar)]

RECURSIVE VertexLoop(_, _)
VertexLoop(acc, vertices) ==
    IF vertices = <<>> THEN acc
    ELSE VertexLoop(AccumulateVertex(acc, Head(vertices)), Tail(vertices))

\* the face loop of processMesh: all face indices, in order
RECURSIVE FaceIndices(_)
FaceIndices(faces) == IF faces = <<>> THEN <<>> ELSE Head(faces) \o FaceIndices(Tail(faces))

\* mesh.isPointCloud = (aimesh->mNumFaces == 0)
IsPointCloudMesh(aimesh) == Len(aimesh.mFaces) = 0

\* processMesh up to the merge: the Mesh built and the per-mesh bounds
ProcessMeshLocal(aimesh) ==
    LET pc == IsPointCloudMesh(aimesh)
        indices == IF pc THEN <<>> ELSE FaceIndices(aimesh.mFaces)
    IN  [mesh |-> [NewMesh EXCEPT !.cpuVertices = aimesh.mNumVertices,
                                  !.isPointCloud = pc,
                                  !.indices = indices,
                                  !.indexCount = Len(indices),
                                  !.vertexCount = aimesh.mNumVertices],
         bounds |-> VertexLoop(EmptyLocal, aimesh.mVertices)]

\* the merge of processMesh on the global accumulators (under the mutex)
MergeBounds(global, local) ==
    [mMin |-> [a \in 1..3 |-> Min2(global.mMin[a], local.min[a])],
     mMax |-> [a \in 1..3 |-> Max2(global.mMax[a], local.max[a])],
     mScalarMin |-> Min2(global.mScalarMin, local.scalarMin),
     mScalarMax |-> Max2(global.mScalarMax, local.scalarMax)]

\* mMin, mMax, mScalarMin, mScalarMax as loadFromFile resets them
ResetBounds == [mMin |-> <<FltMax, FltMax, FltMax>>, mMax |-> <<-FltMax, -FltMax, -FltMax>>,
                mScalarMin |-> FltMax, mScalarMax |-> -FltMax]

\* "Normalize scalar range if needed"
NormalizeScalarRange(b) ==
    IF b.mScalarMax <= b.mScalarMin THEN [b EXCEPT !.mScalarMin = 0, !.mScalarMax = 1] ELSE b

\* the single-threaded loop: processMesh(0), processMesh(1), ...
RECURSIVE SequentialBounds(_, _, _)
SequentialBounds(global, aimeshes, k) ==
    IF k > Len(aimeshes) THEN global
    ELSE SequentialBounds(MergeBounds(global, ProcessMeshLocal(aimeshes[k]).bounds),
                          aimeshes, k + 1)

SequentialMeshes(aimeshes) ==
    [k \in 1..Len(aimeshes) |-> ProcessMeshLocal(aimeshes[k]).mesh]

\* Model::isPointCloud()
IsPointCloud(meshes) == meshes # <<>> /\ meshes[1].isPointCloud

\* Model::hasSpatialIndex()
HasSpatialIndex == spatialIndex.valid

\* totalPoints of loadFromFile
TotalPoints(meshes) == SeqSum([k \in 1..Len(meshes) |-> meshes[k].vertexCount])

\* "Build spatial index (octree) for point clouds with many points": mSpatialIndex
\* after the block, given what it was before.  Of the tree only mRoot != nullptr
\* and the number of points it was built over are kept here.
SpatialIndexAfterLoad(old, meshes) ==
    IF IsPointCloud(meshes) /\ meshes # <<>> /\ TotalPoints(meshes) >= PointCloudMinPointsForOctree
    THEN [valid |-> TRUE, builtOver |-> TotalPoints(meshes)]
    ELSE old

\* the GL names held by a list of meshes
MeshGlNames(meshes) ==
    UNION { {meshes[k].vao, meshes[k].vbo, meshes[k].ebo} : k \in DOMAIN meshes } \ {0}

----------------------------------------------------------------------------
(* Model::uploadToGPU, Model::destroyGPU *)

\* glGen*: a name not in use
GenName(used) == CHOOSE n \in 1..(Cardinality(used) + 1) : n \notin used /\ \A m \in 1..(n - 1) : m \in used

\* faulty variant: half-float packing for every large mesh, point clouds included
UsesOptimizedVerticesAnyMesh(mesh) == mesh.vertexCount >= VertexOptimizationMinVerts

\* mesh.usesOptimizedVertices
UsesOptimizedVertices(mesh) ==
    ~mesh.isPointCloud /\ mesh.vertexCount >= VertexOptimizationMinVerts

\* faulty variant: the scan lets the first value beyond 16 bits pass
AllFitInclusive(indices) == \A k \in DOMAIN indices : ~(indices[k] > IndexLimit16)

\* "Validate all indices fit in 16-bit range"
AllFit(indices) == \A k \in DOMAIN indices : ~(indices[k] >= IndexLimit16)

\* faulty variant: the index width is chosen from the index values alone
Uses16BitIndicesByValue(mesh) == AllFit(mesh.indices)

\* mesh.uses16BitIndices once the index buffer of a mesh with indices is uploaded
Uses16BitIndices(mesh) ==
    IF mesh.vertexCount < IndexLimit16 THEN AllFit(mesh.indices) ELSE FALSE

\* static_cast<uint16_t>(idx)
ToUint16(idx) == idx % IndexLimit16

\* faulty variant: no mesh is ever skipped
AlreadyUploadedNever(mesh) == FALSE

\* if (mesh.vao.valid()) continue;
AlreadyUploaded(mesh) == mesh.vao # 0

\* the body of the mesh loop of uploadToGPU, for one mesh; `used` are the GL
\* names in use before it
UploadMesh(mesh, used) ==
    IF AlreadyUploaded(mesh) THEN mesh
    ELSE LET vao == GenName(used)
             vbo == GenName(used \cup {vao})
             ebo == IF ~mesh.isPointCloud THEN GenName(used \cup {vao, vbo}) ELSE 0
             opt == UsesOptimizedVertices(mesh)
             withIdx == ~mesh.isPointCloud /\ mesh.indexCount > 0
             u16 == IF withIdx THEN Uses16BitIndices(mesh) ELSE mesh.uses16BitIndices
         IN  [mesh EXCEPT !.vao = vao, !.vbo = vbo, !.ebo = ebo,
                          !.usesOptimizedVertices = opt,
                          !.vboLayout = IF opt THEN "half" ELSE "float",
                          !.uses16BitIndices = u16,
                          !.eboWidth = IF withIdx THEN (IF u16 THEN 16 ELSE 32) ELSE @,
                          !.eboData = IF withIdx
                                      THEN (IF u16 THEN [k \in DOMAIN mesh.indices |-> ToUint16(mesh.indices[k])]
                                            ELSE mesh.indices)
                                      ELSE @]

\* the mesh loop of uploadToGPU over meshes k, k+1, ...
RECURSIVE UploadLoop(_, _, _)
UploadLoop(meshes, k, used) ==
    IF k > Len(meshes) THEN meshes
    ELSE LET m == UploadMesh(meshes[k], used)
         IN  UploadLoop([meshes EXCEPT ![k] = m], k + 1, used \cup ({m.vao, m.vbo, m.ebo} \ {0}))

\* "if (dropCpu)": the CPU-side arrays are cleared
DropCpu(meshes) == [k \in DOMAIN meshes |-> [meshes[k] EXCEPT !.cpuVertices = 0, !.indices = <<>>]]

\* Model::uploadToGPU(dropCpu)
UploadToGPU(dropCpu) ==
    /\ LET up == UploadLoop(mMeshes, 1, glObjects)
       IN  /\ mMeshes' = IF dropCpu THEN DropCpu(up) ELSE up
           /\ glObjects' = glObjects \cup MeshGlNames(up)
    /\ UNCHANGED <<mBounds, spatialIndex, loadResult, octVars, sceneVars, ingestVars, restVars>>

\* Model::destroyGPU()
DestroyGPU ==
    /\ mMeshes' = [k \in DOMAIN mMeshes |-> [mMeshes[k] EXCEPT !.ebo = 0, !.vbo = 0, !.vao = 0]]
    /\ glObjects' = glObjects \ MeshGlNames(mMeshes)
    /\ UNCHANGED <<mBounds, spatialIndex, loadResult, octVars, sceneVars, ingestVars, restVars>>

----------------------------------------------------------------------------
(* Model::loadFromFile, as one step (its workers are followed one by one in
   SpecIngest, which shows that the bounds they leave are the sequential ones) *)

\* the Model after loadFromFile(file), given the Model before
LoadedMeshes(file) == IF file.scene /\ file.meshes # <<>> THEN SequentialMeshes(file.meshes) ELSE <<>>

LoadedBounds(old, file) ==
    IF file.scene /\ file.meshes # <<>>
    THEN NormalizeScalarRange(SequentialBounds(ResetBounds, file.meshes, 1))
    ELSE old

LoadedSpatialIndex(old, file) ==
    IF file.scene /\ file.meshes # <<>>
    THEN SpatialIndexAfterLoad(old, LoadedMeshes(file))
    ELSE old

LoadFromFile(file) ==
    /\ mMeshes' = LoadedMeshes(file)
    /\ glObjects' = glObjects \ MeshGlNames(mMeshes)
    /\ mBounds' = LoadedBounds(mBounds, file)
    /\ spatialIndex' = LoadedSpatialIndex(spatialIndex, file)
    /\ loadResult' = [called |-> TRUE, ok |-> file.scene /\ file.meshes # <<>>, file |-> file]
    /\ UNCHANGED <<octVars, sceneVars, ingestVars, restVars>>

----------------------------------------------------------------------------
(* Specification of the upload: a model loaded from some file is uploaded,
   possibly again, and its GPU objects are destroyed. *)

MaxUploadMeshes == 2     \* most meshes of a file handed to the upload

\* vertex counts around the two thresholds, and the 200,000 of the scenario
UploadVertexCounts ==
    { VertexOptimizationMinVerts - 1, VertexOptimizationMinVerts,
      IndexLimit16 - 1, IndexLimit16, 200000 }

\* no face (a point cloud), or one triangle whose largest index is small, the
\* last vertex of a mesh of 65535 vertices, the largest 16-bit value, or the
\* first value beyond
UploadFaceLists ==
    { <<>>, << <<0, 1, 2>> >>, << <<0, 1, IndexLimit16 - 2>> >>, << <<0, 1, IndexLimit16 - 1>> >>,
      << <<0, 1, IndexLimit16>> >> }

UploadAiMeshes == { AiMesh(n, <<BoxMin, BoxMax>>, f) : n \in UploadVertexCounts, f \in UploadFaceLists }

UploadFiles == { ImportOk(ms) : ms \in UNION { [1..n -> UploadAiMeshes] : n \in 1..MaxUploadMeshes } }

InitUpload ==
    /\ \E file \in UploadFiles :
          /\ mMeshes = LoadedMeshes(file)
          /\ mBounds = LoadedBounds(ResetBounds, file)
          /\ spatialIndex = LoadedSpatialIndex([valid |-> FALSE, builtOver |-> 0], file)
          /\ loadResult = [called |-> TRUE, ok |-> TRUE, file |-> file]
    /\ glObjects = {}
    /\ OctreeIdle /\ SceneIdle /\ IngestIdle /\ RestIdle

NextUpload ==
    \/ \E dropCpu \in BOOLEAN : UploadToGPU(dropCpu)
    \/ DestroyGPU

SpecUpload == InitUpload /\ [][NextUpload]_vars

\* mesh k gets its GPU objects in this step
UploadedNow(k) == mMeshes[k].vao = 0 /\ mMeshes'[k].vao # 0

\* mesh k is a mesh for which uploadToGPU fills an index buffer
HasIndexBuffer(k) == ~mMeshes[k].isPointCloud /\ mMeshes[k].indexCount > 0

\* C4 as stated: a mesh with an index buffer is uploaded with 16-bit indices
\* exactly when every index it holds is below 65536, whatever its vertex count.
C4_Original_16BitIffAllIndicesFit ==
    [][\A k \in DOMAIN mMeshes :
          (UploadedNow(k) /\ HasIndexBuffer(k)) =>
              (mMeshes'[k].uses16BitIndices <=> AllFit(mMeshes[k].indices))]_vars

\* C4 amended: a mesh with an index buffer is uploaded with 16-bit indices exactly
\* when its vertex count is below 65536 and every index it holds is below 65536;
\* with 16 bits the buffer holds the indices unchanged; a mesh without an index
\* buffer keeps uses16BitIndices as it was.
C4_16BitIffFewVerticesAndAllIndicesFit ==
    [][\A k \in DOMAIN mMeshes :
          UploadedNow(k) =>
              IF HasIndexBuffer(k)
              THEN /\ mMeshes'[k].uses16BitIndices <=>
                          (mMeshes[k].vertexCount < IndexLimit16 /\ AllFit(mMeshes[k].indices))
                   /\ mMeshes'[k].eboWidth = (IF mMeshes'[k].uses16BitIndices THEN 16 ELSE 32)
                   /\ mMeshes'[k].eboData = mMeshes[k].indices
              ELSE mMeshes'[k].uses16BitIndices = mMeshes[k].uses16BitIndices]_vars

\* the scenario of the claim: 200,000 vertices, all indices below 65536, uploaded
\* with 32-bit indices
C4_Witness ==
    \E k \in DOMAIN mMeshes :
        /\ mMeshes[k].vao # 0 /\ mMeshes[k].vertexCount = 200000
        /\ mMeshes[k].eboWidth = 32 /\ ~mMeshes[k].uses16BitIndices
        /\ mMeshes[k].eboData # <<>> /\ AllFit(mMeshes[k].eboData)

\* C5 as stated: every uploaded mesh, point clouds included, uses the half-float
\* layout exactly when its vertex count is at or above the threshold.
C5_Original_OptimizedIffLarge ==
    \A k \in DOMAIN mMeshes :
        mMeshes[k].vao # 0 =>
            (mMeshes[k].usesOptimizedVertices <=>
                 mMeshes[k].vertexCount >= VertexOptimizationMinVerts)

\* C5 amended: an uploaded mesh uses the half-float layout exactly when it is not
\* a point cloud and its vertex count is at or above the threshold.
C5_OptimizedIffLargeAndNotPointCloud ==
    \A k \in DOMAIN mMeshes :
        mMeshes[k].vao # 0 =>
            /\ mMeshes[k].usesOptimizedVertices <=>
                   (~mMeshes[k].isPointCloud /\ mMeshes[k].vertexCount >= VertexOptimizationMinVerts)
            /\ mMeshes[k].vboLayout = (IF mMeshes[k].usesOptimizedVertices THEN "half" ELSE "float")

\* an uploaded point cloud at the threshold, in the full-float layout, next to an
\* uploaded triangle mesh at the threshold in the half-float layout
C5_Witness ==
    /\ \E k \in DOMAIN mMeshes :
          /\ mMeshes[k].vao # 0 /\ mMeshes[k].isPointCloud
          /\ mMeshes[k].vertexCount >= VertexOptimizationMinVerts
          /\ mMeshes[k].vboLayout = "float"
    /\ \E k \in DOMAIN mMeshes :
          /\ mMeshes[k].vao # 0 /\ ~mMeshes[k].isPointCloud
          /\ mMeshes[k].vertexCount = VertexOptimizationMinVerts
          /\ mMeshes[k].vboLayout = "half"

\* the largest index a mesh holds
MaxIndex(indices) == SetMax(Range(indices))

\* C21: a mesh with exactly 65535 vertices and maximum index 65534 is uploaded
\* with 16-bit index storage, and a mesh with 65536 or more vertices, or holding
\* any index of 65536 or more, is uploaded with 32-bit index storage.
C21_IndexWidthAtTheBoundary ==
    [][\A k \in DOMAIN mMeshes :
          (UploadedNow(k) /\ HasIndexBuffer(k)) =>
              /\ (/\ mMeshes[k].vertexCount = IndexLimit16 - 1
                  /\ mMeshes[k].indices # <<>>
                  /\ MaxIndex(mMeshes[k].indices) = IndexLimit16 - 2)
                    => (mMeshes'[k].uses16BitIndices /\ mMeshes'[k].eboWidth = 16)
              /\ (\/ mMeshes[k].vertexCount >= IndexLimit16
                  \/ \E i \in DOMAIN mMeshes[k].indices : mMeshes[k].indices[i] >= IndexLimit16)
                    => (~mMeshes'[k].uses16BitIndices /\ mMeshes'[k].eboWidth = 32
                        /\ mMeshes'[k].eboData = mMeshes[k].indices)]_vars

\* uploaded side by side: the mesh of 65535 vertices with largest index 65534 in
\* 16 bits, a mesh of 65536 vertices in 32 bits, and a mesh of 65535 vertices
\* holding the index 65536 in 32 bits
C21_Witness ==
    /\ \E k \in DOMAIN mMeshes :
          /\ mMeshes[k].vao # 0 /\ mMeshes[k].vertexCount = IndexLimit16 - 1
          /\ mMeshes[k].eboData # <<>> /\ MaxIndex(mMeshes[k].eboData) = IndexLimit16 - 2
          /\ mMeshes[k].eboWidth = 16 /\ mMeshes[k].uses16BitIndices
    /\ \E k \in DOMAIN mMeshes :
          /\ mMeshes[k].vao # 0 /\ mMeshes[k].eboWidth = 32 /\ ~mMeshes[k].uses16BitIndices
          /\ \/ mMeshes[k].vertexCount = IndexLimit16
             \/ (mMeshes[k].vertexCount = IndexLimit16 - 1 /\ MaxIndex(mMeshes[k].eboData) = IndexLimit16)

\* every mesh of the model has its GPU handles
AllUploaded == mMeshes # <<>> /\ \A k \in DOMAIN mMeshes : mMeshes[k].vao # 0

\* what the GPU holds of mesh m: its handles, the two flags, the buffers' contents
GpuSide(m) ==
    <<m.vao, m.vbo, m.ebo, m.uses16BitIndices, m.usesOptimizedVertices, m.vboLayout,
      m.eboWidth, m.eboData>>

\* C22: calling uploadToGPU again on a model whose meshes already have GPU
\* handles creates no new GPU objects, uploads no data and leaves every mesh's
\* handles, index-width flag and vertex-layout flag unchanged.
C22_UploadIsIdempotent ==
    [][(AllUploaded /\ \E dropCpu \in BOOLEAN : UploadToGPU(dropCpu)) =>
           /\ glObjects' = glObjects
           /\ DOMAIN mMeshes' = DOMAIN mMeshes
           /\ \A k \in DOMAIN mMeshes : GpuSide(mMeshes'[k]) = GpuSide(mMeshes[k])]_vars

\* a fully uploaded model of the largest size, one of its meshes a point cloud
\* and one with an index buffer, whose CPU arrays an uploadToGPU(true) has dropped
C22_Witness ==
    /\ AllUploaded /\ Len(mMeshes) = MaxUploadMeshes
    /\ \E k \in DOMAIN mMeshes : mMeshes[k].eboData # <<>> /\ mMeshes[k].indices = <<>>
    /\ \E k \in DOMAIN mMeshes : mMeshes[k].isPointCloud

----------------------------------------------------------------------------
(* Specification of loading: loadFromFile is called again and again on one Model. *)

MaxLoadMeshes == 2       \* most meshes of a file handed to loadFromFile

\* half the octree threshold (two such meshes reach it) and the threshold
LoadVertexCounts == { PointCloudMinPointsForOctree \div 2, PointCloudMinPointsForOctree }

LoadFaceLists == { <<>>, << <<0, 1, 2>> >> }

LoadVertexLists == { <<BoxMin>>, <<BoxMin, BoxMax>> }

LoadAiMeshes ==
    { AiMesh(n, v, f) : n \in LoadVertexCounts, v \in LoadVertexLists, f \in LoadFaceLists }

\* files the importer reads into a scene with meshes, a file it reads into a
\* scene without meshes, and a file it cannot read
LoadFiles ==
    { ImportOk(ms) : ms \in UNION { [1..n -> LoadAiMeshes] : n \in 0..MaxLoadMeshes } }
        \cup { ImportNull }

InitLoad == ModelIdle /\ OctreeIdle /\ SceneIdle /\ IngestIdle /\ RestIdle

NextLoad == \E file \in LoadFiles : LoadFromFile(file)

SpecLoad == InitLoad /\ [][NextLoad]_vars

\* C6: after any sequence of loadFromFile calls, hasSpatialIndex() is true only if
\* the model now loaded is a point cloud with at least 100000 points in total.
C6_SpatialIndexOnlyForLargePointCloud ==
    HasSpatialIndex =>
        (IsPointCloud(mMeshes) /\ TotalPoints(mMeshes) >= PointCloudMinPointsForOctree)

\* C7: after a successful loadFromFile, isPointCloud has the same value on every
\* mesh of the model.
C7_IsPointCloudUniform ==
    (loadResult.called /\ loadResult.ok) =>
        \A k \in DOMAIN mMeshes : mMeshes[k].isPointCloud = IsPointCloud(mMeshes)

----------------------------------------------------------------------------
(* Scene (Scene.hpp, Scene.cpp), the occlusion culler, the Inspector's toggles *)

LOD_FAR_THRESHOLD == 50
LOD_NEAR_THRESHOLD == 10

\* Renderer::initializeScene: S * T, centring the model and scaling its longest
\* axis to 1.  The scale 1 / maxAxis is a whole number for the models of the
\* scene specification, whose longest axis is one unit or zero.
InitializeSceneMatrix(bmin, bmax) ==
    LET c == Center(bmin, bmax)
        size == [a \in 1..3 |-> bmax[a] - bmin[a]]
        maxAxis == Max2(size[1], Max2(size[2], size[3]))
        sc == IF maxAxis > 0 THEN Unit \div maxAxis ELSE 1
    IN  MatMul(Scale(sc), Translate([a \in 1..3 |-> -c[a]]))

\* Model::center()
ModelCenter == Center(mBounds.mMin, mBounds.mMax)

\* the squared distance of two points (glm::length of their difference, squared)
DistSq(p, q) == (p[1] - q[1]) * (p[1] - q[1]) + (p[2] - q[2]) * (p[2] - q[2])
                + (p[3] - q[3]) * (p[3] - q[3])

\* actualMode of Scene::draw for the scene sc and the frame state cam; lengths
\* are stored in units of 1/Unit
ActualModeFor(sc, cam) ==
    IF sc.autoLOD
    THEN LET modelCenter == TransformPoint(sc.modelMatrix, ModelCenter)
             distSq == DistSq(cam.camPos, modelCenter)
         IN  IF distSq > (LOD_FAR_THRESHOLD * Unit) * (LOD_FAR_THRESHOLD * Unit) THEN "Points"
             ELSE IF distSq < (LOD_NEAR_THRESHOLD * Unit) * (LOD_NEAR_THRESHOLD * Unit)
                  THEN "InstancedSpheres"
                  ELSE "SphereImpostors"
    ELSE sc.pointCloudMode

ActualMode == ActualModeFor(scene, camera)

\* what one call of Scene::draw issues
Drawn(kind, indices, drawCalls, pts, triangles, ubo) ==
    [kind |-> kind, indices |-> indices, drawCalls |-> drawCalls, points |-> pts,
     triangles |-> triangles, uboUpdated |-> ubo]

\* the frustum gate of Scene::draw and Scene::drawDepthOnly lets the model through
FrustumGateOpen(sc, cam) == TRUE
FrustumGatePassesFor(sc, cam) ==
    sc.enableFrustumCulling =>
        IntersectsTransformedAABB(ExtractFromMatrix(cam.viewProj),
                                  mBounds.mMin, mBounds.mMax, sc.modelMatrix)

FrustumGatePasses == FrustumGatePassesFor(scene, camera)

\* the occlusion gate of Scene::draw returns without drawing
OcclusionGateReturnsFor(sc) ==
    /\ sc.enableOcclusionCulling /\ ~IsPointCloud(mMeshes)
    /\ (~sc.occlusionSupported \/ ~sc.lastOcclusionResult)

OcclusionGateReturns == OcclusionGateReturnsFor(scene)

\* Scene::draw for the scene sc and the frame state cam
SceneDrawResultFor(sc, cam) ==
    IF ~FrustumGatePassesFor(sc, cam) THEN Drawn("culled_frustum", <<>>, 0, 0, 0, FALSE)
    ELSE IF OcclusionGateReturnsFor(sc) THEN Drawn("culled_occlusion", <<>>, 0, 0, 0, FALSE)
    ELSE IF IsPointCloud(mMeshes)
    THEN CASE ActualModeFor(sc, cam) = "Points" ->
                  IF sc.enableSpatialIndexing /\ HasSpatialIndex
                  THEN LET visibleIndices == GetVisiblePoints(octree, cam.viewProj, cam.camPos, FltMax)
                       IN  IF visibleIndices # <<>>
                           THEN Drawn("points_subset", visibleIndices, 1, Len(visibleIndices), 0, TRUE)
                           ELSE Drawn("points_subset", visibleIndices, 0, 0, 0, TRUE)
                  ELSE Drawn("points", <<>>, 1, mMeshes[1].vertexCount, 0, TRUE)
           [] ActualModeFor(sc, cam) = "SphereImpostors" ->
                  Drawn("impostors", <<>>, 1, mMeshes[1].vertexCount, 0, TRUE)
           [] ActualModeFor(sc, cam) = "InstancedSpheres" ->
                  Drawn("instanced", <<>>, 1, mMeshes[1].vertexCount, 0, TRUE)
    ELSE Drawn("mesh", <<>>, 1, 0,
               SeqSum([k \in DOMAIN mMeshes |-> mMeshes[k].indexCount \div 3]), TRUE)

SceneDrawResult == SceneDrawResultFor(scene, camera)

Draw ==
    /\ lastDraw' = SceneDrawResult
    /\ UNCHANGED <<scene, camera, octVars, modelVars, ingestVars, restVars>>

\* faulty variant: the result is read whether or not it is available
ResultReadUnconditionally(last, available, samplesPassed) == samplesPassed > 0

\* mLastOcclusionResult after the poll of testOcclusion
LastResultAfterPoll(last, available, samplesPassed) ==
    IF available THEN samplesPassed > 0 ELSE last

\* the scene after Scene::testOcclusion
AfterTestOcclusion(sc, available, samplesPassed) ==
    IF sc.enableOcclusionCulling /\ sc.occlusionSupported
    THEN [sc EXCEPT !.lastOcclusionResult = LastResultAfterPoll(@, available, samplesPassed)]
    ELSE sc

\* OcclusionCuller::testOcclusion, called by Renderer when occlusion culling is on
\* and the model is not a point cloud.  `available` and `samplesPassed` are what
\* the GPU answers to the two glGetQueryObjectuiv calls.  A supported culler has
\* created its query object in initialize().
TestOcclusion(available, samplesPassed) ==
    /\ scene.enableOcclusionCulling /\ ~IsPointCloud(mMeshes)
    /\ scene' = AfterTestOcclusion(scene, available, samplesPassed)
    /\ lastDraw' = IdleDraw
    /\ UNCHANGED <<camera, octVars, modelVars, ingestVars, restVars>>

\* the check boxes the Inspector shows: frustum culling and the bounding box
\* always, spatial indexing and auto LOD for a point cloud, occlusion culling and
\* the Early-Z prepass for a mesh.  Ticking "Show BBox" creates the box's line
\* geometry if it does not exist yet, so a shown box is a valid one.
ToggleShown(flag) ==
    CASE flag = "enableFrustumCulling" -> TRUE
      [] flag \in {"enableSpatialIndexing", "autoLOD"} -> IsPointCloud(mMeshes)
      [] flag \in {"enableOcclusionCulling", "enableEarlyZPrepass"} -> ~IsPointCloud(mMeshes)
      [] flag = "showBoundingBox" -> TRUE

Toggle(flag) ==
    /\ ToggleShown(flag)
    /\ scene' = [scene EXCEPT ![flag] = ~@]
    /\ lastDraw' = IdleDraw
    /\ UNCHANGED <<camera, octVars, modelVars, ingestVars, restVars>>

\* the "Point Mode" combo box
SetPointCloudMode(mode) ==
    /\ IsPointCloud(mMeshes) /\ ~scene.autoLOD
    /\ scene' = [scene EXCEPT !.pointCloudMode = mode]
    /\ lastDraw' = IdleDraw
    /\ UNCHANGED <<camera, octVars, modelVars, ingestVars, restVars>>

\* the camera of the next frame
SetCamera(cam) ==
    /\ camera' = cam
    /\ lastDraw' = IdleDraw
    /\ UNCHANGED <<scene, octVars, modelVars, ingestVars, restVars>>

----------------------------------------------------------------------------
(* Specification of the scene: a loaded and uploaded model is drawn frame after
   frame while the camera moves and the Inspector's toggles are flipped. *)

\* Points of the scene's clouds: two opposite corners of a box of one unit
ScenePositions == { <<0, 0, 0>>, <<Unit, Unit, Unit>> }

ScenePointArrays == UNION { [1..n -> ScenePositions] : n \in 1..MaxPoints }

\* the triangle mesh of the scene: 8 vertices spanning the same box, one triangle
SceneMeshFile == ImportOk(<< AiMesh(8, <<<<0, 0, 0>>, <<Unit, Unit, Unit>>>>, << <<0, 1, 2>> >>) >>)

ScenePointCloudFile(pts) == ImportOk(<< AiMesh(Len(pts), pts, <<>>) >>)

\* A view-projection matrix whose frustum is the cube of half-width `half`
\* around `c` (an orthographic camera looking along an axis): clip x = x - c.x,
\* clip w = half.
CubeViewProj(c, half) ==
    << <<1, 0, 0, -c[1]>>, <<0, 1, 0, -c[2]>>, <<0, 0, 1, -c[3]>>, <<0, 0, 0, half>> >>

Camera(c, half, camPos) == [viewProj |-> CubeViewProj(c, half), camPos |-> camPos]

\* around the origin and wide; a narrow one around the corner (-1/2, -1/2, -1/2),
\* where initializeScene's matrix puts the model's point (0, 0, 0); one at middle
\* distance; one far away looking elsewhere
Cameras ==
    { Camera(<<0, 0, 0>>, 2 * Unit, <<0, 0, 2 * Unit>>),
      Camera(<<-(Unit \div 2), -(Unit \div 2), -(Unit \div 2)>>, Unit \div 4, <<0, 0, 2 * Unit>>),
      Camera(<<0, 0, 0>>, 2 * Unit, <<0, 0, 20 * Unit>>),
      Camera(<<100 * Unit, 0, 0>>, Unit, <<100 * Unit, 0, 0>>) }

\* Scene's default member initialisers, with the matrix and the culler as given
NewScene(modelMatrix, supported) ==
    [modelMatrix |-> modelMatrix, pointCloudMode |-> "Points", autoLOD |-> FALSE,
     enableFrustumCulling |-> TRUE, enableSpatialIndexing |-> TRUE,
     enableOcclusionCulling |-> FALSE, enableEarlyZPrepass |-> FALSE,
     showBoundingBox |-> FALSE,
     occlusionSupported |-> supported, lastOcclusionResult |-> TRUE]

\* The model is loaded and uploaded.  A small cloud with an octree (built through
\* Model::spatialIndex(), with the configured parameters or with one point per
\* node) stands for a large one.
InitScene ==
    /\ \E file \in {SceneMeshFile} \cup { ScenePointCloudFile(pts) : pts \in ScenePointArrays } :
          /\ mMeshes = UploadLoop(LoadedMeshes(file), 1, {})
          /\ mBounds = LoadedBounds(ResetBounds, file)
          /\ loadResult = [called |-> TRUE, ok |-> TRUE, file |-> file]
          /\ IF Len(file.meshes[1].mFaces) = 0
             THEN /\ points = file.meshes[1].mVertices
                  /\ octree \in { NullOctree,
                                  OctreeBuild(points, mBounds.mMin, mBounds.mMax,
                                              OctreePointsPerNode, OctreeMaxDepth),
                                  OctreeBuild(points, mBounds.mMin, mBounds.mMax, 1, MaxDepthBound) }
             ELSE points = <<>> /\ octree = NullOctree
    /\ glObjects = MeshGlNames(mMeshes)
    /\ spatialIndex = [valid |-> octree.valid, builtOver |-> Len(points)]
    /\ \E mm \in {Identity4, InitializeSceneMatrix(mBounds.mMin, mBounds.mMax)}, sup \in BOOLEAN :
          scene = NewScene(mm, sup)
    /\ camera = Camera(<<0, 0, 0>>, 2 * Unit, <<0, 0, 2 * Unit>>)
    /\ lastDraw = IdleDraw
    /\ IngestIdle /\ RestIdle

NextScene ==
    \/ Draw
    \/ \E available \in BOOLEAN, samplesPassed \in {0, 1} : TestOcclusion(available, samplesPassed)
    \/ \E flag \in {"enableFrustumCulling", "enableSpatialIndexing", "autoLOD", "enableOcclusionCulling"} :
          Toggle(flag)
    \/ \E mode \in {"Points", "SphereImpostors", "InstancedSpheres"} : SetPointCloudMode(mode)
    \/ \E cam \in Cameras : SetCamera(cam)

SpecScene == InitScene /\ [][NextScene]_vars

\* the world-space position of point i (model matrix applied)
WorldPosition(i) == TransformPoint(scene.modelMatrix, points[i + 1])

\* a world-space position lies inside the view frustum of the frame
InsideFrustum(pos) ==
    \A i \in 1..6 : PlaneDistance(ExtractFromMatrix(camera.viewProj)[i], pos) >= 0

\* C2: when Scene::draw takes the plain-points path with spatial indexing enabled
\* and an octree present, every point whose world-space position lies inside the
\* view frustum is in the index subset passed to drawPointsSubset.
C2_NoVisiblePointDropped ==
    lastDraw.kind = "points_subset" =>
        \A i \in 0..(Len(points) - 1) :
            InsideFrustum(WorldPosition(i)) =>
                (lastDraw.drawCalls = 1 /\ i \in Range(lastDraw.indices))

\* C3: with occlusion culling enabled and occlusion queries unsupported, a model
\* that is not a point cloud and passes the frustum gate is drawn by Scene::draw.
C3_UnsupportedOcclusionFailsOpen ==
    (/\ lastDraw.kind # "none"
     /\ scene.enableOcclusionCulling /\ ~scene.occlusionSupported
     /\ ~IsPointCloud(mMeshes)
     /\ FrustumGatePasses)
        => (lastDraw.kind = "mesh" /\ lastDraw.drawCalls = 1)

\* with the identity as model matrix no visible point is dropped
C2_IdentityMatrixKeepsVisiblePoints ==
    scene.modelMatrix = Identity4 => C2_NoVisiblePointDropped

----------------------------------------------------------------------------
(* Model::loadFromFile step by step: the worker threads of the threaded branch,
   the mutex around the merge, the join, and what follows it. *)

MaxIngestMeshes == 3     \* most meshes of a file handed to the stepwise load
MaxHC == 3               \* largest std::thread::hardware_concurrency()

NoHolder == -1           \* the mutex is free

\* useThreading of loadFromFile
UseThreading(aimeshes) ==
    \/ SeqSum([k \in 1..Len(aimeshes) |-> aimeshes[k].mNumVertices]) >= MinVerticesForThreading
    \/ Len(aimeshes) >= MinMeshesForThreading

\* the branch "if (useThreading && scene->mNumMeshes > 1)"
ThreadedBranch(aimeshes) == UseThreading(aimeshes) /\ Len(aimeshes) > 1

\* numThreads of the threaded branch
NumThreads(hc, numMeshes) == Max2(Min2(hc, numMeshes), 1)

\* "m += numThreads" of a worker's loop
NextMeshByOne(m, numThreads) == m + 1
NextMesh(m, numThreads) == m + numThreads

\* what processMesh holds in its locals before the merge
NoLocal == [mesh |-> NewMesh, bounds |-> EmptyLocal]

\* a worker thread as created by threads.emplace_back: about to test m < N, m = t
NewWorker(t) == [pc |-> "loop", m |-> t, local |-> NoLocal, merged |-> ResetBounds]

\* The state of one call.  processedBy[k] lists the workers that called
\* processMesh(k - 1) and mergeOrder lists the mesh indices in the order of their
\* merges: both record history and are read by no action.
IngestState(phase, file, hc, numThreads, workers, mutex, processedBy, mergeOrder) ==
    [phase |-> phase, file |-> file, hc |-> hc, numThreads |-> numThreads, workers |-> workers,
     mutex |-> mutex, processedBy |-> processedBy, mergeOrder |-> mergeOrder]

\* loadFromFile up to the branch: clear, import, failure return, reset of the
\* accumulators, resize, and, in the threaded branch, creation of the threads.
\* One call is followed from its start to its return; what a later call finds of
\* an earlier one is the subject of the specification of the load above.
BeginLoad(file, hc) ==
    /\ ingest.phase = "idle"
    /\ glObjects' = glObjects \ MeshGlNames(mMeshes)
    /\ IF ~file.scene \/ file.meshes = <<>>
       THEN /\ mMeshes' = <<>>
            /\ loadResult' = [called |-> TRUE, ok |-> FALSE, file |-> file]
            /\ ingest' = IngestState("failed", file, hc, 0, <<>>, NoHolder, <<>>, <<>>)
            /\ UNCHANGED <<mBounds>>
       ELSE LET n == Len(file.meshes)
                numThreads == NumThreads(hc, n)
            IN  /\ mMeshes' = [k \in 1..n |-> NewMesh]
                /\ mBounds' = ResetBounds
                /\ loadResult' = [called |-> TRUE, ok |-> FALSE, file |-> file]
                /\ ingest' = IF ThreadedBranch(file.meshes)
                             THEN IngestState("threaded", file, hc, numThreads,
                                              [t \in 0..(numThreads - 1) |-> NewWorker(t)],
                                              NoHolder, [k \in 1..n |-> <<>>], <<>>)
                             ELSE IngestState("sequential", file, hc, 0, <<>>,
                                              NoHolder, [k \in 1..n |-> <<>>], <<>>)
    /\ UNCHANGED <<spatialIndex, octVars, sceneVars, restVars>>

\* the single-threaded branch: no other thread exists, the loop runs as one step
SequentialLoop ==
    /\ ingest.phase = "sequential"
    /\ mMeshes' = SequentialMeshes(ingest.file.meshes)
    /\ mBounds' = SequentialBounds(mBounds, ingest.file.meshes, 1)
    /\ ingest' = [ingest EXCEPT !.phase = "joined",
                                !.processedBy = [k \in DOMAIN @ |-> <<NoHolder>>],
                                !.mergeOrder = Iota(Len(ingest.file.meshes))]
    /\ UNCHANGED <<spatialIndex, loadResult, glObjects, octVars, sceneVars, restVars>>

Workers == IF ingest.phase \in {"threaded", "joined", "done"} THEN DOMAIN ingest.workers ELSE {}

\* a worker tests m < N and either runs processMesh(m) up to the lock or returns
WorkerProcess(t) ==
    LET w == ingest.workers[t] IN
    /\ t \in Workers /\ w.pc = "loop"
    /\ ingest' = IF w.m < Len(ingest.file.meshes)
                 THEN [ingest EXCEPT !.workers[t].pc = "ready",
                                     !.workers[t].local = ProcessMeshLocal(ingest.file.meshes[w.m + 1]),
                                     !.processedBy[w.m + 1] = Append(@, t)]
                 ELSE [ingest EXCEPT !.workers[t].pc = "finished"]
    /\ UNCHANGED <<modelVars, octVars, sceneVars, restVars>>

\* std::lock_guard's constructor returns when the mutex is free
MutexFreeAlways == TRUE
MutexFree == ingest.mutex = NoHolder

WorkerLock(t) ==
    /\ t \in Workers /\ ingest.workers[t].pc = "ready"
    /\ MutexFree
    /\ ingest' = [ingest EXCEPT !.workers[t].pc = "critical", !.mutex = t]
    /\ UNCHANGED <<modelVars, octVars, sceneVars, restVars>>

\* first half of the merge: the mesh is moved into its slot and the accumulators
\* are read and combined with the worker's own
WorkerMergeRead(t) ==
    LET w == ingest.workers[t] IN
    /\ t \in Workers /\ w.pc = "critical"
    /\ mMeshes' = [mMeshes EXCEPT ![w.m + 1] = w.local.mesh]
    /\ ingest' = [ingest EXCEPT !.workers[t].pc = "writing",
                                !.workers[t].merged = MergeBounds(mBounds, w.local.bounds)]
    /\ UNCHANGED <<mBounds, spatialIndex, loadResult, glObjects, octVars, sceneVars, restVars>>

\* second half: the combined values are stored, the lock_guard releases the
\* mutex, and the worker's loop advances
WorkerMergeWrite(t) ==
    LET w == ingest.workers[t] IN
    /\ t \in Workers /\ w.pc = "writing"
    /\ mBounds' = w.merged
    /\ ingest' = [ingest EXCEPT !.workers[t] = [pc |-> "loop", m |-> NextMesh(w.m, ingest.numThreads),
                                               local |-> NoLocal, merged |-> ResetBounds],
                                !.mutex = NoHolder,
                                !.mergeOrder = Append(@, w.m)]
    /\ UNCHANGED <<mMeshes, spatialIndex, loadResult, glObjects, octVars, sceneVars, restVars>>

\* every thread.join() has returned
JoinReturnsAtOnce == TRUE
JoinReturns == \A t \in DOMAIN ingest.workers : ingest.workers[t].pc = "finished"

Join ==
    /\ ingest.phase = "threaded"
    /\ JoinReturns
    /\ ingest' = [ingest EXCEPT !.phase = "joined"]
    /\ UNCHANGED <<modelVars, octVars, sceneVars, restVars>>

\* after the branch: normalisation of the scalar range, the octree block, return
FinishLoad ==
    /\ ingest.phase = "joined"
    /\ mBounds' = NormalizeScalarRange(mBounds)
    /\ spatialIndex' = SpatialIndexAfterLoad(spatialIndex, mMeshes)
    /\ loadResult' = [loadResult EXCEPT !.ok = TRUE]
    /\ ingest' = [ingest EXCEPT !.phase = "done"]
    /\ UNCHANGED <<mMeshes, glObjects, octVars, sceneVars, restVars>>

----------------------------------------------------------------------------
(* Specification of the stepwise load *)

\* a one-point cloud, a triangle, a two-point cloud, with different boxes
IngestAiMeshes ==
    { AiMesh(1, << <<0, 0, 0>> >>, <<>>),
      AiMesh(3, << <<Unit, 0, 0>>, <<0, Unit, 0>>, <<0, 0, -Unit>> >>, << <<0, 1, 2>> >>),
      AiMesh(2, << <<-Unit, 2 * Unit, 0>>, <<2 * Unit, -Unit, Unit>> >>, <<>>) }

IngestFiles ==
    {ImportNull} \cup { ImportOk(ms) : ms \in UNION { [1..n -> IngestAiMeshes] : n \in 0..MaxIngestMeshes } }

InitIngest ==
    /\ ModelIdle /\ OctreeIdle /\ SceneIdle /\ RestIdle
    /\ ingest = IdleIngest

NextIngest ==
    \/ \E file \in IngestFiles, hc \in 0..MaxHC : BeginLoad(file, hc)
    \/ SequentialLoop
    \/ \E t \in Workers : WorkerProcess(t)
    \/ \E t \in Workers : WorkerLock(t)
    \/ \E t \in Workers : WorkerMergeRead(t)
    \/ \E t \in Workers : WorkerMergeWrite(t)
    \/ Join
    \/ FinishLoad

SpecIngest == InitIngest /\ [][NextIngest]_vars

\* the call took the threaded branch
Threaded == ingest.phase \in {"threaded", "joined", "done"} /\ ingest.numThreads >= 1

NumMeshes == Len(ingest.file.meshes)

\* C8: in the threaded branch the number of workers is min(hardware concurrency,
\* N), raised to 1 when that is 0; no mesh index is processed more than once, and
\* once all workers have finished every mesh index 0..N-1 has been processed by
\* exactly one worker exactly once.
C8_EveryMeshProcessedExactlyOnce ==
    Threaded =>
        /\ Cardinality(DOMAIN ingest.workers) =
               (IF Min2(ingest.hc, NumMeshes) = 0 THEN 1 ELSE Min2(ingest.hc, NumMeshes))
        /\ \A k \in 1..NumMeshes : Len(ingest.processedBy[k]) <= 1
        /\ (\A t \in DOMAIN ingest.workers : ingest.workers[t].pc = "finished") =>
               \A k \in 1..NumMeshes : Len(ingest.processedBy[k]) = 1

\* two workers have finished three meshes between them
C8_Witness ==
    /\ ingest.phase = "joined" /\ ingest.numThreads = 2 /\ NumMeshes = 3
    /\ ingest.processedBy = << <<0>>, <<1>>, <<0>> >>

\* the workers inside the merge step
InMerge == { t \in Workers : ingest.workers[t].pc \in {"critical", "writing"} }

\* C9: while the workers run, at most one of them is inside the merge step, it
\* holds the mutex, and mMeshes and the accumulators change only in a step of the
\* worker that is inside the merge step.
C9_MergeIsMutuallyExclusive ==
    [][ingest.phase = "threaded" =>
          /\ Cardinality(InMerge) <= 1
          /\ \A t \in InMerge : ingest.mutex = t
          /\ (mMeshes' # mMeshes \/ mBounds' # mBounds) =>
                 \E t \in InMerge : /\ ingest'.workers[t] # ingest.workers[t]
                                    /\ \A u \in Workers \ {t} : ingest'.workers[u] = ingest.workers[u]]_vars

\* one worker is inside the merge step while another waits for the mutex
C9_Witness ==
    /\ ingest.phase = "threaded"
    /\ \E t, u \in Workers : /\ ingest.workers[t].pc = "writing"
                             /\ ingest.workers[u].pc = "ready"

\* C10: loadFromFile goes on to the normalisation, the octree block and the
\* return only after all workers have finished, and then the meshes, the AABB and
\* the scalar range are those of the single-threaded loop, whatever the
\* interleaving.
C10_JoinThenSequentialResult ==
    (Threaded /\ ingest.phase \in {"joined", "done"}) =>
        /\ \A t \in DOMAIN ingest.workers : ingest.workers[t].pc = "finished"
        /\ mMeshes = SequentialMeshes(ingest.file.meshes)
        /\ mBounds = (IF ingest.phase = "joined"
                      THEN SequentialBounds(ResetBounds, ingest.file.meshes, 1)
                      ELSE NormalizeScalarRange(SequentialBounds(ResetBounds, ingest.file.meshes, 1)))

\* a threaded load has returned after merging its meshes in another order than
\* the single-threaded loop's
C10_Witness ==
    /\ ingest.phase = "done" /\ ingest.numThreads >= 2 /\ loadResult.ok
    /\ ingest.mergeOrder # <<>> /\ ingest.mergeOrder[1] # 0
    /\ mBounds.mMin # mBounds.mMax

----------------------------------------------------------------------------
(* Renderer::render (Renderer.cpp): one frame, with the GL state cache, the
   matrices UBO and the occlusion query *)

\* glm::scale(mat4(1), v)
ScaleVec(v) == << <<v[1], 0, 0, 0>>, <<0, v[2], 0, 0>>, <<0, 0, v[3], 0>>, <<0, 0, 0, 1>> >>

\* aabbXform of testOcclusion: modelMatrix * translate(min) * scale(size).  The
\* translation is in stored units; the scale is a pure number (size in whole
\* units, which the boxes of the frame specification have).
ProxyTransform(modelMatrix, bmin, bmax) ==
    MatMul(MatMul(modelMatrix, Translate(bmin)),
           ScaleVec([a \in 1..3 |-> (bmax[a] - bmin[a]) \div Unit]))

\* what the matrices UBO holds: model matrix, the frame's matrices, camera position
UboContent(model, cam) == [model |-> model, viewProj |-> cam.viewProj, camPos |-> cam.camPos]

\* glBufferData with a null pointer: no content yet
EmptyUbo == [model |-> <<>>, viewProj |-> <<>>, camPos |-> <<>>]

\* the depth and colour state of GL as RenderDevice::initialize leaves it
InitialGlState == [colorWrite |-> TRUE, depthWrite |-> TRUE, depthFunc |-> "LESS"]

\* GLStateCache::colorMask, depthMask, depthFunc: the GL call is made only when
\* the cached value differs
CacheColorMask(r, v) ==
    IF r.cache.colorWrite # v THEN [r EXCEPT !.gl.colorWrite = v, !.cache.colorWrite = v] ELSE r
CacheDepthMask(r, v) ==
    IF r.cache.depthWrite # v THEN [r EXCEPT !.gl.depthWrite = v, !.cache.depthWrite = v] ELSE r
CacheDepthFunc(r, f) ==
    IF r.cache.depthFunc # f THEN [r EXCEPT !.gl.depthFunc = f, !.cache.depthFunc = f] ELSE r

\* An operation of the frame is logged with the GL state it is issued under and
\* with whether the matrices UBO then holds the state of the frame f: its scene
\* and its camera.
Op(r, f, name) ==
    [r EXCEPT !.trace = Append(@, [op |-> name, gl |-> r.gl,
                                   uboInSync |-> r.ubo = UboContent(f.scene.modelMatrix, f.camera)])]

\* Scene::updateUBOs
UpdateUBOs(r, f, opName) ==
    Op([r EXCEPT !.ubo = UboContent(f.scene.modelMatrix, f.camera)], f, opName)

\* The Renderer once initializeScene has run: GLStateCache::initialize has read
\* the GL state, no frame has been rendered.  Some fields record history and are
\* read by no operation: resultAge tells which query produced mLastOcclusionResult
\* (0: this frame's, 1: the previous frame's, 2: an older one or none) and
\* everRead whether a query result has ever been read;
\* issuedNow / issuedPrev tell whether this / the previous frame issued a query;
\* timely tells whether every query issued before this frame had completed
\* when this frame started; gpu is what the GPU did with this frame's query.
NewRenderer ==
    [phase |-> "ready", gl |-> InitialGlState, cache |-> InitialGlState,
     ubo |-> EmptyUbo, trace |-> <<>>,
     counters |-> [drawCalls |-> 0, triangles |-> 0, points |-> 0],
     resultAge |-> 2, everRead |-> FALSE, issuedNow |-> FALSE, issuedPrev |-> FALSE,
     timely |-> TRUE,
     gpu |-> [completion |-> "late", samplesPassed |-> 0]]

\* start of render(): counters reset, glClear
BeginFrame(r, f, gpu) ==
    Op([r EXCEPT !.phase = "frame", !.trace = <<>>,
                 !.counters = [drawCalls |-> 0, triangles |-> 0, points |-> 0],
                 !.issuedPrev = r.issuedNow, !.issuedNow = FALSE,
                 !.resultAge = Min2(@ + 1, 2),
                 !.timely = r.timely /\ (r.issuedNow => r.gpu.completion # "late"),
                 !.gpu = gpu],
       f, "clear")

\* the GPU has the query's result ready when testOcclusion polls
Available(gpu) == gpu.completion = "at_poll"

\* render() calls Scene::testOcclusion, and the culler issues a query
OcclusionTested(sc) ==
    sc.enableOcclusionCulling /\ ~IsPointCloud(mMeshes) /\ sc.occlusionSupported

\* "Occlusion culling: test if model is occluded": Scene::testOcclusion and
\* OcclusionCuller::testOcclusion
TestOcclusionStage(r, f) ==
    IF ~OcclusionTested(f.scene)
    THEN r
    ELSE LET r1 == CacheDepthFunc(CacheDepthMask(CacheColorMask(r, FALSE), TRUE), "LESS")
             r2 == Op([r1 EXCEPT !.ubo = UboContent(ProxyTransform(f.scene.modelMatrix, mBounds.mMin,
                                                                  mBounds.mMax), f.camera),
                                 !.issuedNow = TRUE],
                      f, "occlusion_proxy_draw")
             r3 == Op(CacheColorMask(r2, TRUE), f, "occlusion_poll")
         IN  IF Available(r.gpu)
             THEN Op([r3 EXCEPT !.resultAge = 0, !.everRead = TRUE], f, "occlusion_result_read")
             ELSE r3

\* Scene::updateUBOs as Scene::drawDepthOnly calls it
PrepassSyncSkipped(r, f) == r
PrepassSync(r, f) == UpdateUBOs(r, f, "prepass_uniform_sync")

\* Scene::drawDepthOnly
DrawDepthOnly(r, f) ==
    LET r1 == IF f.scene.enableFrustumCulling THEN Op(r, f, "prepass_frustum_cull") ELSE r
    IN  IF ~FrustumGatePassesFor(f.scene, f.camera) THEN r1
        ELSE LET r2 == PrepassSync(r1, f)
             IN  IF ~IsPointCloud(mMeshes) THEN Op(r2, f, "depth_prepass") ELSE r2

\* the depth state of a frame without the prepass
SinglePassStateKept(r) == r
SinglePassState(r) == CacheDepthFunc(CacheDepthMask(r, TRUE), "LESS")

\* "Early-Z depth prepass" with its else branch
EarlyZStage(r, f) ==
    IF f.scene.enableEarlyZPrepass /\ ~IsPointCloud(mMeshes)
    THEN LET r1 == CacheDepthFunc(CacheDepthMask(CacheColorMask(r, FALSE), TRUE), "LESS")
             r2 == DrawDepthOnly(r1, f)
         IN  CacheDepthMask(CacheDepthFunc(CacheColorMask(r2, TRUE), "LEQUAL"), FALSE)
    ELSE SinglePassState(r)

\* Scene::draw as the frame sees it
DrawStage(r, f) ==
    LET d == SceneDrawResultFor(f.scene, f.camera)
        r1 == IF f.scene.enableFrustumCulling THEN Op(r, f, "frustum_cull") ELSE r
        r2 == IF f.scene.enableOcclusionCulling /\ ~IsPointCloud(mMeshes)
              THEN Op(r1, f, "occlusion_cull_read") ELSE r1
        r3 == UpdateUBOs(r2, f, "uniform_sync")
        r4 == IF d.drawCalls > 0 THEN Op(r3, f, "shaded_draw") ELSE r3
    IN  IF d.kind = "culled_frustum" THEN r1
        ELSE IF d.kind = "culled_occlusion" THEN r2
        ELSE [r4 EXCEPT !.counters = [drawCalls |-> d.drawCalls, triangles |-> d.triangles,
                                      points |-> d.points]]

\* Scene::drawBoundingBox
BoundingBoxStage(r, f) == IF f.scene.showBoundingBox THEN Op(r, f, "bbox_overlay") ELSE r

\* the stages of render() that come before the main pass, in the order of the code
BeforeMainPassPrepassFirst(r, f) == TestOcclusionStage(EarlyZStage(r, f), f)
BeforeMainPass(r, f) == EarlyZStage(TestOcclusionStage(r, f), f)

\* render() on the renderer r for the frame f (the scene, carrying the occlusion
\* flag the test of this frame leaves, and the camera)
RenderFrame(r, f, gpu) ==
    BoundingBoxStage(DrawStage(BeforeMainPass(BeginFrame(r, f, gpu), f), f), f)

\* a check box ticked in the Inspector ("none": no click)
Clicked(sc, flag) ==
    IF flag \in DOMAIN sc /\ ToggleShown(flag) THEN [sc EXCEPT ![flag] = ~@] ELSE sc

\* the scene of a frame after the occlusion test of render()
SceneAfterTest(sc, gpu) ==
    IF sc.enableOcclusionCulling /\ ~IsPointCloud(mMeshes)
    THEN AfterTestOcclusion(sc, Available(gpu), gpu.samplesPassed)
    ELSE sc

\* One turn of main's loop, taken from the Inspector of the previous render():
\* the check box clicked there takes effect, handleInput moves the camera, and
\* render() runs up to the bounding box.  The GPU decides when the frame's query
\* completes and how many samples passed.
Frame(click, cam, gpu) ==
    LET sc == SceneAfterTest(Clicked(scene, click), gpu)
        f == [scene |-> sc, camera |-> cam]
    IN  /\ renderer.phase \in {"ready", "frame"}
        /\ camera' = cam
        /\ scene' = sc
        /\ lastDraw' = SceneDrawResultFor(sc, cam)
        /\ renderer' = RenderFrame(renderer, f, gpu)
        /\ UNCHANGED <<octVars, modelVars, ingestVars, queryVars, halfVars, appVars, extraVars>>

----------------------------------------------------------------------------
(* Specification of the frames: the renderer draws a loaded model frame after
   frame while the toggles are flipped and the camera moves between frames. *)

\* a triangle mesh whose box is one unit wide and does not start at the origin
FrameMeshFile ==
    ImportOk(<< AiMesh(8, << <<Unit, 0, 0>>, <<2 * Unit, Unit, Unit>> >>, << <<0, 1, 2>> >>) >>)

\* a small point cloud (no octree is built for it)
FramePointCloudFile == ImportOk(<< AiMesh(2, << <<Unit, 0, 0>>, <<2 * Unit, Unit, Unit>> >>, <<>>) >>)

\* the camera on the model, and the camera looking elsewhere
FrameCameras ==
    { Camera(<<0, 0, 0>>, 2 * Unit, <<0, 0, 2 * Unit>>),
      Camera(<<100 * Unit, 0, 0>>, Unit, <<100 * Unit, 0, 0>>) }

\* the number of samples matters only for a result that is read
GpuAnswers ==
    { [completion |-> "at_poll", samplesPassed |-> 0],
      [completion |-> "at_poll", samplesPassed |-> 1],
      [completion |-> "before_next_frame", samplesPassed |-> 0],
      [completion |-> "late", samplesPassed |-> 0] }

FrameToggles == {"enableFrustumCulling", "enableOcclusionCulling", "enableEarlyZPrepass",
                 "showBoundingBox"}

InitFrame ==
    /\ \E file \in {FrameMeshFile, FramePointCloudFile} :
          /\ mMeshes = UploadLoop(LoadedMeshes(file), 1, {})
          /\ mBounds = LoadedBounds(ResetBounds, file)
          /\ loadResult = [called |-> TRUE, ok |-> TRUE, file |-> file]
    /\ glObjects = MeshGlNames(mMeshes)
    /\ spatialIndex = [valid |-> FALSE, builtOver |-> 0]
    /\ OctreeIdle
    /\ \E sup \in BOOLEAN : scene = NewScene(InitializeSceneMatrix(mBounds.mMin, mBounds.mMax), sup)
    /\ camera = Camera(<<0, 0, 0>>, 2 * Unit, <<0, 0, 2 * Unit>>)
    /\ lastDraw = IdleDraw
    /\ renderer = NewRenderer
    /\ visible = IdleVisible /\ conv = IdleConv /\ app = IdleApp /\ ExtraIdle
    /\ IngestIdle

NextFrame ==
    \E click \in FrameToggles \cup {"none"}, cam \in FrameCameras, gpu \in GpuAnswers :
        Frame(click, cam, gpu)

SpecFrame == InitFrame /\ [][NextFrame]_vars

\* the names of the operations of the last frame, in the order they were issued
TraceOps == [k \in DOMAIN renderer.trace |-> renderer.trace[k].op]

FrameRendered == renderer.phase = "frame"

\* the entries of the last frame's log for the operation `name`
Entries(name) == { k \in DOMAIN renderer.trace : renderer.trace[k].op = name }

\* C11: if every issued occlusion query completes before the next frame starts,
\* the cached visibility flag that gates the draw of frame N+1 comes from a query
\* issued in frame N or in frame N+1 (stated for a frame N+1 that follows a frame
\* N in which a query was issued).
C11_VisibilityLagsAtMostOneFrame ==
    (/\ FrameRendered /\ OcclusionTested(scene)
     /\ renderer.issuedPrev
     /\ renderer.timely /\ renderer.gpu.completion # "late")
        => renderer.resultAge <= 1

\* C12: testOcclusion reads the query result exactly when the availability poll
\* reports ready; the cached flag then becomes "some samples passed" and in every
\* other case keeps its value, which is "visible" as long as no result was read.
C12_TestOcclusionNeverWaits ==
    [][FrameRendered' =>
          /\ OcclusionTested(scene') =>
                /\ (Entries("occlusion_result_read")' # {}) <=> Available(renderer'.gpu)
                /\ Entries("occlusion_poll")' # {}
                /\ Available(renderer'.gpu) =>
                       scene'.lastOcclusionResult = (renderer'.gpu.samplesPassed > 0)
                /\ ~Available(renderer'.gpu) =>
                       scene'.lastOcclusionResult = scene.lastOcclusionResult
          /\ ~OcclusionTested(scene') =>
                /\ Entries("occlusion_result_read")' = {}
                /\ scene'.lastOcclusionResult = scene.lastOcclusionResult
          /\ ~renderer'.everRead => scene'.lastOcclusionResult]_vars

\* a frame whose poll found no result and which kept the "occluded" flag that an
\* earlier frame had read
C12_Witness ==
    /\ FrameRendered /\ OcclusionTested(scene)
    /\ ~Available(renderer.gpu) /\ renderer.everRead
    /\ ~scene.lastOcclusionResult

\* the stage of an operation in the order the specification gives (0: none of them)
StageOf(op) ==
    CASE op \in {"frustum_cull", "prepass_frustum_cull"} -> 1
      [] op = "occlusion_cull_read" -> 2
      [] op = "depth_prepass" -> 3
      [] op \in {"uniform_sync", "prepass_uniform_sync"} -> 4
      [] op = "shaded_draw" -> 5
      [] op = "bbox_overlay" -> 6
      [] OTHER -> 0

FrameOrder ==
    << "clear", "occlusion_proxy_draw", "occlusion_poll", "occlusion_result_read",
       "prepass_frustum_cull", "prepass_uniform_sync", "depth_prepass",
       "frustum_cull", "occlusion_cull_read", "uniform_sync", "shaded_draw", "bbox_overlay" >>

PlaceOf(op) == CHOOSE k \in DOMAIN FrameOrder : FrameOrder[k] = op

C14_UniformsInSyncAtModelDraws ==
    FrameRendered =>
        \A k \in Entries("depth_prepass") \cup Entries("shaded_draw") :
            /\ renderer.trace[k].uboInSync
            /\ \E i \in 1..(k - 1) : TraceOps[i] \in {"prepass_uniform_sync", "uniform_sync"}

\* both passes drawn in a frame whose occlusion test had put the proxy box's
\* transform into the buffer
C14_Witness ==
    /\ FrameRendered
    /\ Entries("depth_prepass") # {} /\ Entries("shaded_draw") # {}
    /\ \E k \in Entries("occlusion_poll") : ~renderer.trace[k].uboInSync

GlState(colorWrite, depthWrite, depthFunc) ==
    [colorWrite |-> colorWrite, depthWrite |-> depthWrite, depthFunc |-> depthFunc]

\* C15: in a frame with Early-Z enabled and a model that is not a point cloud the
\* depth-only pass runs with colour writes off, depth writes on and depth test
\* LESS and the shaded pass with colour writes on, depth writes off and depth
\* test LEQUAL; in every other frame the shaded pass runs with colour writes on,
\* depth writes on and depth test LESS.
C15_DepthStateOfThePasses ==
    FrameRendered =>
        IF scene.enableEarlyZPrepass /\ ~IsPointCloud(mMeshes)
        THEN /\ \A k \in Entries("depth_prepass") : renderer.trace[k].gl = GlState(FALSE, TRUE, "LESS")
             /\ \A k \in Entries("shaded_draw") : renderer.trace[k].gl = GlState(TRUE, FALSE, "LEQUAL")
        ELSE /\ Entries("depth_prepass") = {}
             /\ \A k \in Entries("shaded_draw") : renderer.trace[k].gl = GlState(TRUE, TRUE, "LESS")

\* a single-pass frame that started in the depth state an Early-Z frame had left
C15_Witness ==
    /\ FrameRendered /\ ~scene.enableEarlyZPrepass
    /\ renderer.trace[1].gl = GlState(TRUE, FALSE, "LEQUAL")
    /\ Entries("shaded_draw") # {}

\* C25: at every clear of the depth buffer at the start of a frame depth writes
\* are enabled, whatever the Early-Z and occlusion toggles were in the frames
\* before.
C25_DepthWritesEnabledAtClear ==
    FrameRendered => \A k \in Entries("clear") : renderer.trace[k].gl.depthWrite

\* C26: whenever testOcclusion issues its proxy-box draw, depth writes are
\* disabled, so that the proxy leaves nothing in the depth buffer the model's
\* passes are tested against.
C26_ProxyDrawWritesNoDepth ==
    FrameRendered => \A k \in Entries("occlusion_proxy_draw") : ~renderer.trace[k].gl.depthWrite

\* C16: when frustum culling is enabled and the model's transformed AABB fails the
\* frustum test, Scene::draw issues no draw call, updates no uniform buffer and
\* adds nothing to the draw-call, triangle and point counters.
C16_FrustumCulledDrawIsNoOp ==
    (/\ lastDraw.kind # "none"
     /\ scene.enableFrustumCulling
     /\ ~IntersectsTransformedAABB(ExtractFromMatrix(camera.viewProj), mBounds.mMin, mBounds.mMax,
                                   scene.modelMatrix))
        => /\ lastDraw.drawCalls = 0 /\ lastDraw.triangles = 0 /\ lastDraw.points = 0
           /\ ~lastDraw.uboUpdated

\* a draw call that the frustum gate turned into a no-op
C16_Witness ==
    /\ lastDraw.kind = "culled_frustum"
    /\ scene.enableFrustumCulling

(***************************************************************************)
(* main(): start-up, the frame loop, and the shutdown sequence.            *)
(*                                                                         *)
(* app.handles holds the objects whose handle field in the C++ object is   *)
(* non-zero; app.live holds the objects that exist in the GL context.      *)
(* app.lost records the objects that still existed when the context was    *)
(* destroyed, app.lateCalls the objects a glDelete* call was issued for    *)
(* while no context existed.  Such a call has no defined outcome: the      *)
(* process either goes on or dies.                                         *)
(***************************************************************************)

\* bound: the number of meshes of the loaded model
MaxAppMeshes == 2

MeshNames == <<"mesh1", "mesh2", "mesh3">>

\* Renderer.h: the five Shader members, in declaration order
Shaders == <<"mShader", "mLineShader", "mSphereImpostorShader", "mInstancedSphereShader",
             "mDepthOnlyShader">>

\* Scene.hpp: the members of Scene that own GL objects, in declaration order
\* (model's meshes and sphere mesh, bboxRenderer, mOcclusionCuller, the three UBOs)
SceneMembers(n) ==
    [i \in 1..n |-> MeshNames[i]] \o <<"sphereMesh", "bbox", "occlusionProxy", "occlusionQuery", "ubos">>

RECURSIVE Reverse(_)
Reverse(q) == IF q = <<>> THEN <<>> ELSE Reverse(Tail(q)) \o <<Head(q)>>

NewApp ==
    [pc |-> "start", context |-> "none", mWindow |-> FALSE, meshes |-> 0,
     mGPUTimingSupported |-> FALSE, mImGuiInitialized |-> FALSE,
     handles |-> {}, live |-> {}, lost |-> {}, lateCalls |-> {}]

\* glGen* / glCreateProgram storing the new name in the handle
GlCreate(a, objs) == [a EXCEPT !.handles = @ \cup objs, !.live = @ \cup objs]

\* a GL call that deletes obj
GlCall(a, obj) ==
    IF a.context = "alive" THEN [a EXCEPT !.live = @ \ {obj}]
    ELSE [a EXCEPT !.lateCalls = @ \cup {obj}]

\* destroy() of GlBuffer, GlVertexArray, UniformBuffer, DynamicLines and
\* ~OcclusionCuller: if (handle) { glDelete*(handle); handle = 0; }
\* ~Shader: if (mProgram != 0) glDeleteProgram(mProgram)
Destroy(a, obj) ==
    IF obj \in a.handles THEN [GlCall(a, obj) EXCEPT !.handles = @ \ {obj}] ELSE a

RECURSIVE DestroyAll(_, _)
DestroyAll(a, objs) ==
    IF objs = <<>> THEN a ELSE DestroyAll(Destroy(a, Head(objs)), Tail(objs))

\* if (mGPUTimingSupported) { if (mGPUTimestampQuery[0] != 0) glDeleteQueries(...); }
\* the handles keep their value after the call
DeleteTimestampQueries(a) ==
    IF a.mGPUTimingSupported /\ "timestampQueries" \in a.handles
    THEN GlCall(a, "timestampQueries") ELSE a

\* Model::destroyGPU
DestroyGPUObjects(a) == DestroyAll(a, [i \in 1..a.meshes |-> MeshNames[i]] \o <<"sphereMesh">>)

\* ImGui_ImplOpenGL3_Shutdown deletes the backend's GL objects
ImGuiShutdown(a) ==
    IF a.mImGuiInitialized THEN [GlCall(a, "imgui") EXCEPT !.mImGuiInitialized = FALSE] ELSE a

\* Renderer::shutdown
RendererShutdown(a) == ImGuiShutdown(DestroyGPUObjects(DeleteTimestampQueries(a)))

\* RenderDevice::shutdown: glfwDestroyWindow destroys the context with all its objects
DeviceShutdown(a) ==
    IF a.mWindow
    THEN [a EXCEPT !.mWindow = FALSE, !.context = "destroyed", !.lost = a.live, !.live = {}]
    ELSE a

\* the outcomes of a step: it proceeds to pc next, or, when it issued a GL
\* call without a context, it may as well kill the process
Outcomes(a, b, next) ==
    {[b EXCEPT !.pc = next]} \cup
    (IF b.lateCalls # a.lateCalls THEN {[b EXCEPT !.pc = "crashed"]} ELSE {})

\* RenderDevice::initialize
DeviceInitialize(outcome) ==
    /\ app.pc = "start"
    /\ app' = CASE outcome = "no_window" -> [app EXCEPT !.pc = "return_device"]
                [] outcome = "no_glad" ->
                       [app EXCEPT !.pc = "return_device", !.mWindow = TRUE, !.context = "alive"]
                [] OTHER -> [app EXCEPT !.pc = "renderer_init", !.mWindow = TRUE, !.context = "alive"]
    /\ UNCHANGED <<octVars, sceneVars, modelVars, ingestVars, frameVars, queryVars, halfVars, extraVars>>

\* Renderer::initializeWithContext with initializeScene and initializeProfiling:
\* failAt = k in 1..5 is the k-th shader failing to load, 6 the model failing to load
RendererInitialize(failAt, n, timing, occlusion) ==
    LET gui == [GlCreate(app, {"imgui"}) EXCEPT !.mImGuiInitialized = TRUE]
        compiled == {Shaders[k] : k \in 1..(IF failAt = 0 THEN Len(Shaders) ELSE failAt - 1) \cap 1..Len(Shaders)}
        withShaders == GlCreate(gui, compiled)
        loaded == [GlCreate(withShaders,
                            {MeshNames[i] : i \in 1..n} \cup {"ubos", "bbox"}
                              \cup (IF occlusion THEN {"occlusionQuery", "occlusionProxy"} ELSE {})
                              \cup (IF timing THEN {"timestampQueries"} ELSE {}))
                     EXCEPT !.meshes = n, !.mGPUTimingSupported = timing]
    IN  /\ app.pc = "renderer_init"
        /\ app' = IF failAt = 0 THEN [loaded EXCEPT !.pc = "loop"]
                  ELSE [ImGuiShutdown(withShaders) EXCEPT !.pc = "return_renderer"]
        /\ UNCHANGED <<octVars, sceneVars, modelVars, ingestVars, frameVars, queryVars, halfVars, extraVars>>

\* one turn of the loop of main; drawing instanced spheres creates the sphere mesh
LoopTurn(instancedSpheres) ==
    /\ app.pc = "loop"
    /\ app' = IF instancedSpheres THEN GlCreate(app, {"sphereMesh"}) ELSE app
    /\ UNCHANGED <<octVars, sceneVars, modelVars, ingestVars, frameVars, queryVars, halfVars, extraVars>>

\* main, after the loop: renderer.shutdown()
MainRendererShutdown ==
    /\ app.pc = "loop"
    /\ app' = [RendererShutdown(app) EXCEPT !.pc = "device_shutdown"]
    /\ UNCHANGED <<octVars, sceneVars, modelVars, ingestVars, frameVars, queryVars, halfVars, extraVars>>

\* main: device.shutdown()
MainDeviceShutdown ==
    /\ app.pc = "device_shutdown"
    /\ app' = [DeviceShutdown(app) EXCEPT !.pc = "return_renderer"]
    /\ UNCHANGED <<octVars, sceneVars, modelVars, ingestVars, frameVars, queryVars, halfVars, extraVars>>

\* return from main, ~Renderer: its body calls shutdown()
RendererDestructorBody ==
    /\ app.pc = "return_renderer"
    /\ app' \in Outcomes(app, RendererShutdown(app), "destroy_scene")
    /\ UNCHANGED <<octVars, sceneVars, modelVars, ingestVars, frameVars, queryVars, halfVars, extraVars>>

\* ~Renderer: the member mScene, its members destroyed in reverse declaration order
SceneDestructor ==
    /\ app.pc = "destroy_scene"
    /\ app' \in Outcomes(app, DestroyAll(app, Reverse(SceneMembers(app.meshes))), "destroy_shaders")
    /\ UNCHANGED <<octVars, sceneVars, modelVars, ingestVars, frameVars, queryVars, halfVars, extraVars>>

\* ~Renderer: the five Shader members, in reverse declaration order
ShaderDestructors ==
    /\ app.pc = "destroy_shaders"
    /\ app' \in Outcomes(app, DestroyAll(app, Reverse(Shaders)), "return_device")
    /\ UNCHANGED <<octVars, sceneVars, modelVars, ingestVars, frameVars, queryVars, halfVars, extraVars>>

\* return from main, ~RenderDevice
DeviceDestructor ==
    /\ app.pc = "return_device"
    /\ app' = [DeviceShutdown(app) EXCEPT !.pc = "exited"]
    /\ UNCHANGED <<octVars, sceneVars, modelVars, ingestVars, frameVars, queryVars, halfVars, extraVars>>

InitApp ==
    /\ OctreeIdle /\ SceneIdle /\ ModelIdle /\ IngestIdle
    /\ renderer = IdleRenderer /\ visible = IdleVisible /\ conv = IdleConv /\ ExtraIdle
    /\ app = NewApp

NextApp ==
    \/ \E outcome \in {"ok", "no_window", "no_glad"} : DeviceInitialize(outcome)
    \/ \E failAt \in 0..6, n \in 1..MaxAppMeshes, timing \in BOOLEAN, occlusion \in BOOLEAN :
           RendererInitialize(failAt, n, timing, occlusion)
    \/ \E instancedSpheres \in BOOLEAN : LoopTurn(instancedSpheres)
    \/ MainRendererShutdown
    \/ MainDeviceShutdown
    \/ RendererDestructorBody
    \/ SceneDestructor
    \/ ShaderDestructors
    \/ DeviceDestructor

SpecApp == InitApp /\ [][NextApp]_vars

\* the GPU objects owned by the renderer and its scene
RendererObjects ==
    {MeshNames[i] : i \in 1..Len(MeshNames)} \cup {Shaders[i] : i \in 1..Len(Shaders)}
        \cup {"sphereMesh", "bbox", "occlusionProxy", "occlusionQuery", "ubos", "timestampQueries"}

\* C17: in the shutdown sequence every GPU object owned by the renderer and its
\* scene is released before the graphics context is destroyed, and no GL call is
\* issued after the context has been destroyed.
C17_ReleasedBeforeContextDestroyed ==
    /\ app.pc # "none" => app.lost \cap RendererObjects = {}
    /\ app.pc # "none" => app.lateCalls = {}

----------------------------------------------------------------------------
(***************************************************************************)
(* Half::floatToHalf (Utils.hpp).  A float is the three fields of its      *)
(* IEEE-754 bit pattern: sign (bit 31), exp (bits 30..23), mant (bits      *)
(* 22..0).  A half is the 16-bit number floatToHalf returns.               *)
(***************************************************************************)

MantissaBits == 23          \* bits of a float's mantissa field
HalfMantissaBits == 10      \* bits of a half's mantissa field
ExpBias == 127              \* exponent bias of a float
HalfExpBias == 15           \* exponent bias of a half
ExpAllOnes == 255           \* 0xFF: the exponent field of an infinity or a NaN
HalfExpAllOnes == 31        \* the exponent field of a half infinity or NaN

Float(sign, exp, mant) == [sign |-> sign, exp |-> exp, mant |-> mant]

\* faulty variant: the exponent is re-biased by one too many
RebiasedExponentOffByOne(exp) == exp - ExpBias + HalfExpBias + 1

\* int32_t exp32 = static_cast<int32_t>(exp) - 127 + 15
RebiasedExponent(exp) == exp - ExpBias + HalfExpBias

\* Half::floatToHalf.  The fields or-ed together do not overlap, so the or is a sum.
FloatToHalf(f) ==
    LET sign == f.sign * Pow2(15)
        exp == f.exp
        mantissa == f.mant \div Pow2(MantissaBits - HalfMantissaBits)     \* (bits >> 13) & 0x3FF
        exp32 == RebiasedExponent(exp)
    IN  IF exp = ExpAllOnes
        THEN (IF mantissa = 0 THEN sign + 31744 ELSE sign + 32256)          \* 0x7C00, 0x7E00
        ELSE IF exp = 0 THEN sign
        ELSE IF exp32 > HalfExpAllOnes THEN sign + 31744
        ELSE IF exp32 < 0 THEN sign
        ELSE sign + exp32 * Pow2(HalfMantissaBits) + mantissa

\* the decoder of testHalfFloatRoundTrip
HalfToFloat(half) ==
    LET sign == (half \div Pow2(15)) % 2
        exp == (half \div Pow2(HalfMantissaBits)) % Pow2(5)
        mantissa == half % Pow2(HalfMantissaBits)
    IN  IF exp = 0 THEN Float(sign, 0, 0)
        ELSE IF exp = HalfExpAllOnes
        THEN (IF mantissa = 0 THEN Float(sign, ExpAllOnes, 0)
              ELSE Float(0, ExpAllOnes, Pow2(MantissaBits - 1)))           \* quiet_NaN()
        ELSE Float(sign, exp - HalfExpBias + ExpBias, mantissa * Pow2(MantissaBits - HalfMantissaBits))

\* mantissa fields tried: zero, the lowest bit, the bits truncation drops, the
\* first bit it keeps, the half way, the largest a half can hold, all ones
Mantissas ==
    {0, 1, Pow2(13) - 1, Pow2(13), Pow2(22), Pow2(22) + Pow2(13) - 1,
     (Pow2(HalfMantissaBits) - 1) * Pow2(13), Pow2(MantissaBits) - 1}

\* the floats tried: every sign and exponent field with these mantissas
Floats == { Float(s, e, m) : s \in {0, 1}, e \in 0..ExpAllOnes, m \in Mantissas }

InitHalf ==
    /\ OctreeIdle /\ SceneIdle /\ ModelIdle /\ IngestIdle
    /\ renderer = IdleRenderer /\ visible = IdleVisible /\ app = IdleApp /\ ExtraIdle
    /\ conv \in { [called |-> FALSE, f |-> f] : f \in Floats }

\* uint16_t half = Half::floatToHalf(f)
Convert ==
    /\ ~conv.called
    /\ conv' = [called |-> TRUE, f |-> conv.f, half |-> FloatToHalf(conv.f)]
    /\ UNCHANGED <<octVars, sceneVars, modelVars, ingestVars, frameVars, queryVars, appVars, extraVars>>

NextHalf == Convert

SpecHalf == InitHalf /\ [][NextHalf]_vars

\* a finite float whose magnitude is a normal half: 2^-14 <= |f| <= 65504
InNormalHalfRange(f) ==
    LET e == f.exp - ExpBias + HalfExpBias
    IN  /\ e >= 1 /\ e <= HalfExpAllOnes - 1
        /\ e = HalfExpAllOnes - 1 =>
               f.mant <= (Pow2(HalfMantissaBits) - 1) * Pow2(MantissaBits - HalfMantissaBits)

\* |x - y| <= |x| / 1000 for a normal float x.  With the significands brought to
\* the lower of the two exponents, a and b, this is 1000 * |a - b| <= a.
WithinTenthOfPercent(x, y) ==
    /\ y.sign = x.sign
    /\ y.exp >= 1 /\ y.exp < ExpAllOnes
    /\ y.exp - x.exp \in {-1, 0, 1}
    /\ LET base == Min2(x.exp, y.exp)
           a == (Pow2(MantissaBits) + x.mant) * Pow2(x.exp - base)
           b == (Pow2(MantissaBits) + y.mant) * Pow2(y.exp - base)
           diff == IF a < b THEN b - a ELSE a - b
       IN  diff <= a \div 1000

\* 0.0, 1.0 and -1.0
ExactValues == { Float(0, 0, 0), Float(0, ExpBias, 0), Float(1, ExpBias, 0) }

\* C20: for every finite float whose magnitude lies in the normal half-precision
\* range, decoding floatToHalf(x) yields a value within 0.1% relative error of x,
\* and the values 0.0, 1.0 and -1.0 round-trip exactly.
C20_HalfRoundTripWithinTolerance ==
    conv.called =>
        /\ InNormalHalfRange(conv.f) => WithinTenthOfPercent(conv.f, HalfToFloat(conv.half))
        /\ conv.f \in ExactValues => HalfToFloat(conv.half) = conv.f

\* a float in the range whose low mantissa bits the conversion drops: the round
\* trip changes it, by the largest amount at the smallest significand
C20_Witness ==
    /\ conv.called
    /\ InNormalHalfRange(conv.f)
    /\ conv.f.mant = Pow2(13) - 1
    /\ HalfToFloat(conv.half) # conv.f
    /\ HalfToFloat(conv.half) = Float(conv.f.sign, conv.f.exp, 0)

\* the classes of a float and of a half encoding
IsFiniteFloat(f) == f.exp # ExpAllOnes
IsNaNFloat(f) == f.exp = ExpAllOnes /\ f.mant # 0
HalfExpField(half) == (half \div Pow2(HalfMantissaBits)) % Pow2(5)
HalfMantField(half) == half % Pow2(HalfMantissaBits)
HalfSignField(half) == (half \div Pow2(15)) % 2
IsNaNHalf(half) == HalfExpField(half) = HalfExpAllOnes /\ HalfMantField(half) # 0
IsInfHalf(half) == HalfExpField(half) = HalfExpAllOnes /\ HalfMantField(half) = 0

\* a finite float whose magnitude is above the largest finite half, 65504
TooLargeForHalf(f) ==
    LET e == f.exp - ExpBias + HalfExpBias
    IN  /\ IsFiniteFloat(f)
        /\ \/ e > HalfExpAllOnes - 1
           \/ /\ e = HalfExpAllOnes - 1
              /\ f.mant > (Pow2(HalfMantissaBits) - 1) * Pow2(MantissaBits - HalfMantissaBits)

\* C29: floatToHalf maps every finite float to a finite half encoding or, when
\* its magnitude is too large for half precision, to the infinity of its sign;
\* it never gives a NaN pattern for a finite input, and it gives a NaN pattern
\* for every NaN input.
C29_FiniteToFiniteOrInfinityNaNToNaN ==
    conv.called =>
        /\ IsFiniteFloat(conv.f) =>
              /\ ~IsNaNHalf(conv.half)
              /\ IsInfHalf(conv.half) =>
                    TooLargeForHalf(conv.f) /\ HalfSignField(conv.half) = conv.f.sign
        /\ IsNaNFloat(conv.f) => IsNaNHalf(conv.half)

----------------------------------------------------------------------------
(***************************************************************************)
(* Model::drawPoints, drawPointsSubset, drawSphereImpostors (Model.cpp):   *)
(* each has a function-local static sLastPointSize of its own and calls    *)
(* glPointSize only when the size asked for differs from it.               *)
(***************************************************************************)

\* the point size of a fresh GL context (1.0), and the initial value of the
\* three statics (0.0f)
GlDefaultPointSize == 1
NoPointSize == 0

\* point sizes tried (Scene::pointSize is 2.0f by default and set by a slider)
PointSizes == {1, 2, 3}

NewPointSize ==
    [gl |-> GlDefaultPointSize,
     sLastPointSize |-> [drawPoints |-> NoPointSize, drawPointsSubset |-> NoPointSize,
                         drawSphereImpostors |-> NoPointSize],
     drawn |-> FALSE]

\* if (pointSize != sLastPointSize) { glPointSize(pointSize); sLastPointSize = pointSize; }
\* for the static of function fn
SetPointSize(ps, fn, size) ==
    IF size # ps.sLastPointSize[fn]
    THEN [ps EXCEPT !.gl = size, !.sLastPointSize[fn] = size]
    ELSE ps

\* the loop "for (const Mesh& mesh : mMeshes)" of drawPoints and
\* drawSphereImpostors issues a glDrawArrays for some mesh
DrawsArrays == \E k \in DOMAIN mMeshes : mMeshes[k].vao # 0 /\ mMeshes[k].vertexCount # 0

\* the record of a call: its function, the size asked for, whether a draw call
\* was issued, and the GL point size in effect then
Called(ps, fn, size, issued) ==
    [gl |-> ps.gl, sLastPointSize |-> ps.sLastPointSize, drawn |-> TRUE,
     fn |-> fn, size |-> size, issued |-> issued]

\* Model::drawPoints(pointSize)
DrawPoints(size) ==
    /\ pointSize' = Called(SetPointSize(pointSize, "drawPoints", size), "drawPoints", size, DrawsArrays)
    /\ UNCHANGED <<octVars, sceneVars, modelVars, ingestVars, frameVars, queryVars, halfVars,
                   appVars, view>>

\* Model::drawPointsSubset(indices, pointSize)
DrawPointsSubset(indices, size) ==
    /\ pointSize' =
          IF indices = <<>> THEN Called(pointSize, "drawPointsSubset", size, FALSE)
          ELSE Called(SetPointSize(pointSize, "drawPointsSubset", size), "drawPointsSubset", size,
                      mMeshes # <<>> /\ mMeshes[1].isPointCloud /\ mMeshes[1].vao # 0)
    /\ UNCHANGED <<octVars, sceneVars, modelVars, ingestVars, frameVars, queryVars, halfVars,
                   appVars, view>>

\* Model::drawSphereImpostors(pointSize)
DrawSphereImpostors(size) ==
    /\ pointSize' = Called(SetPointSize(pointSize, "drawSphereImpostors", size),
                           "drawSphereImpostors", size, DrawsArrays)
    /\ UNCHANGED <<octVars, sceneVars, modelVars, ingestVars, frameVars, queryVars, halfVars,
                   appVars, view>>

\* a point cloud or a triangle mesh, loaded and uploaded
InitPoints ==
    /\ \E file \in {SceneMeshFile, ScenePointCloudFile(<< <<0, 0, 0>>, <<Unit, Unit, Unit>> >>)} :
          /\ mMeshes = UploadLoop(LoadedMeshes(file), 1, {})
          /\ mBounds = LoadedBounds(ResetBounds, file)
          /\ loadResult = [called |-> TRUE, ok |-> TRUE, file |-> file]
    /\ glObjects = MeshGlNames(mMeshes)
    /\ spatialIndex = [valid |-> FALSE, builtOver |-> 0]
    /\ OctreeIdle /\ SceneIdle /\ IngestIdle
    /\ renderer = IdleRenderer /\ visible = IdleVisible /\ conv = IdleConv /\ app = IdleApp
    /\ view = IdleView
    /\ pointSize = NewPointSize

NextPoints ==
    \/ \E size \in PointSizes : DrawPoints(size)
    \/ \E size \in PointSizes, indices \in {<<>>, <<0>>, <<0, 1>>} : DrawPointsSubset(indices, size)
    \/ \E size \in PointSizes : DrawSphereImpostors(size)

SpecPoints == InitPoints /\ [][NextPoints]_vars

\* C24: the last-point-size caches only elide redundant GL calls: whenever
\* drawPoints, drawPointsSubset or drawSphereImpostors issues a draw with point
\* size p, the GL point size in effect is p.
C24_DrawUsesTheSizeAskedFor ==
    (pointSize.drawn /\ pointSize.issued) => pointSize.gl = pointSize.size


----------------------------------------------------------------------------
(* Point clouds of several meshes: loadFromFile builds one octree over the
   points of all the meshes, and Scene::draw hands the indices the octree returns
   to drawPointsSubset, which draws from the first mesh. *)

\* "Collect all points from all meshes": the positions in the order of the
\* loop, the k-th of them (from 0) getting the global index k
RECURSIVE CollectPoints(_)
CollectPoints(aimeshes) ==
    IF aimeshes = <<>> THEN <<>> ELSE Head(aimeshes).mVertices \o CollectPoints(Tail(aimeshes))

\* a point cloud file with the points pts in one mesh, or split after the
\* first `cut` points into two meshes
CloudFile(pts, cut) ==
    IF cut = 0 THEN ScenePointCloudFile(pts)
    ELSE ImportOk(<< AiMesh(cut, SubSeq(pts, 1, cut), <<>>),
                     AiMesh(Len(pts) - cut, SubSeq(pts, cut + 1, Len(pts)), <<>>) >>)

CloudFiles == { CloudFile(pts, cut) : pts \in ScenePointArrays, cut \in 0..(MaxPoints - 1) }

\* the vertex array drawPointsSubset binds: mMeshes[0].vao, holding the first
\* mesh's vertexCount vertices
SubsetDrawCapacity == IF mMeshes = <<>> THEN 0 ELSE mMeshes[1].vertexCount

\* The cloud is loaded and uploaded and its octree is built over the collected
\* points (a small cloud stands for one over the octree threshold).
InitCloud ==
    /\ \E file \in { f \in CloudFiles : \A k \in DOMAIN f.meshes : f.meshes[k].mNumVertices > 0 } :
          /\ mMeshes = UploadLoop(LoadedMeshes(file), 1, {})
          /\ mBounds = LoadedBounds(ResetBounds, file)
          /\ loadResult = [called |-> TRUE, ok |-> TRUE, file |-> file]
          /\ points = CollectPoints(file.meshes)
          /\ octree \in { OctreeBuild(points, mBounds.mMin, mBounds.mMax,
                                      OctreePointsPerNode, OctreeMaxDepth),
                          OctreeBuild(points, mBounds.mMin, mBounds.mMax, 1, MaxDepthBound) }
    /\ glObjects = MeshGlNames(mMeshes)
    /\ spatialIndex = [valid |-> octree.valid, builtOver |-> Len(points)]
    /\ \E mm \in {Identity4, InitializeSceneMatrix(mBounds.mMin, mBounds.mMax)} :
          scene = NewScene(mm, FALSE)
    /\ camera = Camera(<<0, 0, 0>>, 2 * Unit, <<0, 0, 2 * Unit>>)
    /\ lastDraw = IdleDraw
    /\ IngestIdle /\ RestIdle

NextCloud ==
    \/ Draw
    \/ \E flag \in {"enableFrustumCulling", "enableSpatialIndexing"} : Toggle(flag)
    \/ \E mode \in {"Points", "SphereImpostors"} : SetPointCloudMode(mode)
    \/ \E cam \in Cameras : SetCamera(cam)

SpecCloud == InitCloud /\ [][NextCloud]_vars

\* C27: every index that Scene::draw hands to drawPointsSubset is a valid vertex
\* index of the mesh it is drawn from: less than the first mesh's vertex count,
\* also for a point cloud made of several meshes.
C27_SubsetIndicesAreVertexIndices ==
    (lastDraw.kind = "points_subset" /\ lastDraw.drawCalls > 0)
        => \A k \in DOMAIN lastDraw.indices : lastDraw.indices[k] < SubsetDrawCapacity


----------------------------------------------------------------------------
(***************************************************************************)
(* Camera presets (View.hpp, RenderUtils.hpp): View::savePreset and        *)
(* View::restorePreset on the vector `presets`, with View::handleInput     *)
(* moving the camera in between.                                           *)
(***************************************************************************)

MAX_PRESETS == 10
MaxSlot == 2            \* largest valid slot tried

\* what a preset holds and what restorePreset writes back: the camera's eye,
\* target and up and the view's yaw and pitch (degrees)
Pose(eye, target, up, yaw, pitch) ==
    [eye |-> eye, target |-> target, up |-> up, yaw |-> yaw, pitch |-> pitch]

\* Camera3D's and View's default member initialisers
DefaultPose == Pose(<<0, 0, 3>>, <<0, 0, 0>>, <<0, 1, 0>>, -90, 0)

\* a CameraPreset as std::vector::resize creates it: value-initialised
ValueInitializedPreset == Pose(<<0, 0, 0>>, <<0, 0, 0>>, <<0, 0, 0>>, 0, 0)

\* The View after construction.  savedSlots and last record history and are read
\* by no operation: the slots savePreset has written, and the last call with the
\* pose it found.
NewView ==
    [kind |-> "view", pose |-> DefaultPose, presets |-> <<>>, savedSlots |-> {},
     last |-> [op |-> "none", slot |-> 0, before |-> DefaultPose]]

\* presets.resize(n) for n > presets.size()
Resized(presets, n) ==
    [k \in 1..n |-> IF k <= Len(presets) THEN presets[k] ELSE ValueInitializedPreset]

\* const CameraPreset& p = presets[slot]
SlotRead(presets, slot) == presets[slot + 1]

\* View::savePreset
SavePreset(slot) ==
    /\ view.kind = "view"
    /\ view' = IF slot < 0 \/ slot >= MAX_PRESETS
               THEN [view EXCEPT !.last = [op |-> "save", slot |-> slot, before |-> view.pose]]
               ELSE LET sized == IF Len(view.presets) <= slot
                                 THEN Resized(view.presets, slot + 1) ELSE view.presets
                    IN  [view EXCEPT !.presets = [sized EXCEPT ![slot + 1] = view.pose],
                                     !.savedSlots = @ \cup {slot},
                                     !.last = [op |-> "save", slot |-> slot, before |-> view.pose]]
    /\ UNCHANGED <<octVars, sceneVars, modelVars, ingestVars, frameVars, queryVars, halfVars,
                   appVars, pointSize>>

\* View::restorePreset
RestorePreset(slot) ==
    /\ view.kind = "view"
    /\ view' = IF slot < 0 \/ slot >= Len(view.presets)
               THEN [view EXCEPT !.last = [op |-> "restore", slot |-> slot, before |-> view.pose]]
               ELSE [view EXCEPT !.pose = SlotRead(view.presets, slot),
                                 !.last = [op |-> "restore", slot |-> slot, before |-> view.pose]]
    /\ UNCHANGED <<octVars, sceneVars, modelVars, ingestVars, frameVars, queryVars, halfVars,
                   appVars, pointSize>>

\* the unit vector View::handleInput computes for pitch 0 and these yaws
Front(yaw) == IF yaw = -90 THEN <<0, 0, -1>> ELSE <<1, 0, 0>>

\* View::handleInput: the keys have moved the eye and the mouse has turned the
\* yaw; the camera looks from the eye along the front vector, up is the y axis
HandleInput(eye, yaw) ==
    /\ view.kind = "view"
    /\ view' = [view EXCEPT
                   !.pose = Pose(eye, [i \in 1..3 |-> eye[i] + Front(yaw)[i]], <<0, 1, 0>>,
                                 yaw, view.pose.pitch),
                   !.last = [op |-> "move", slot |-> 0, before |-> view.pose]]
    /\ UNCHANGED <<octVars, sceneVars, modelVars, ingestVars, frameVars, queryVars, halfVars,
                   appVars, pointSize>>

\* the slots tried: the valid ones up to MaxSlot, and one on either side of the
\* valid range
ViewSlots == {-1, MAX_PRESETS} \cup 0..MaxSlot

\* where the input moves the camera to
ViewMoves == { <<<<0, 0, 3>>, -90>>, <<<<1, 0, 3>>, 0>> }

InitView ==
    /\ OctreeIdle /\ SceneIdle /\ ModelIdle /\ IngestIdle
    /\ renderer = IdleRenderer /\ visible = IdleVisible /\ conv = IdleConv /\ app = IdleApp
    /\ pointSize = IdlePointSize
    /\ view = NewView

NextView ==
    \/ \E slot \in ViewSlots : SavePreset(slot)
    \/ \E slot \in ViewSlots : RestorePreset(slot)
    \/ \E m \in ViewMoves : HandleInput(m[1], m[2])

SpecView == InitView /\ [][NextView]_vars

\* C30: for every sequence of savePreset and restorePreset calls,
\* restorePreset(slot) changes the camera only if savePreset(slot) was called
\* earlier for that slot, and then reinstates exactly the eye, target, up, yaw and
\* pitch last saved in it; restoring a slot never saved leaves the camera
\* unchanged.
C30_RestoreOnlyWhatWasSaved ==
    (view.kind = "view" /\ view.last.op = "restore") =>
        IF view.last.slot \in view.savedSlots
        THEN view.pose = view.presets[view.last.slot + 1]
        ELSE view.pose = view.last.before

====
